---------------------------- MODULE Spec2Model ----------------------------
(***************************************************************************)
(* The stateful alert pipeline of the Discord alerting scripts.            *)
(*                                                                         *)
(* Spec        one monitor process after another of                         *)
(*             scripts/insider_transactions_alert.py: main() loads the      *)
(*             history, fetches every watchlist symbol through              *)
(*             get_insider_transactions (round-robin key, retry on 429),    *)
(*             evaluates every fetched transaction, sends the queued        *)
(*             alerts, evicts old records and saves the history.            *)
(* SpecTwice   the same process run twice in immediate succession against   *)
(*             upstream data fixed at the start.                            *)
(* SpecDeliver one call of a monitor's delivery function on a payload list  *)
(*             (the three variants the scripts contain).                    *)
(* SpecFetch   the fetches of one run: main's loop over the watchlist.      *)
(* SpecCall    the calls of a fetch function (get_insider_transactions,     *)
(*             get_ipo_calendar), one after the other.                      *)
(* SpecLoad    a run that finds the snapshot file missing, empty,           *)
(*             malformed or unreadable.                                     *)
(* SpecFilter  one call of is_significant_transaction.                      *)
(* SpecLive    the runs of the insider transactions monitor under the       *)
(*             assumption that a started process keeps stepping.            *)
(* SpecKill    the same runs, any of which may be killed.                   *)
(* SpecAlerts  one run after another of monitor_insider_activity of         *)
(*             discord_alerts.py (Form 4 trades, then 8-K filings).         *)
(* SpecIpo     one run after another of main of                             *)
(*             scripts/eps_surprises_alert.py (the IPO calendar).           *)
(*                                                                         *)
(* Time is counted in whole days.  Pacing sleeps (time.sleep(0.4) between   *)
(* symbols, the delays between batches) change no state and are left out;   *)
(* the back-off sleeps of the fetch function are recorded in `slept`.       *)
(***************************************************************************)
EXTENDS Integers, Sequences, FiniteSets, TLC

VARIABLES
    monitor,          \* which script's code runs
    API_KEYS,         \* the configured credentials, in order
    DISCORD_WEBHOOK,  \* TRUE iff the webhook URL is configured
    DISCORD_WEBHOOK_FORM4,   \* discord_alerts.py: TRUE iff the URL is set
    DISCORD_WEBHOOK_FORM8K,  \* discord_alerts.py: TRUE iff the URL is set
    FINNHUB_API_KEY,  \* discord_alerts.py: TRUE iff the credential is set
    now,              \* the clock, in days
    ticks,            \* how often the clock has advanced
    disk,             \* the history snapshot file: id -> record
    file_state,       \* the condition the snapshot file is in
    pc,               \* where the process is
    history,          \* main's in-memory history
    symIdx,           \* index of the watchlist symbol being processed
    data,             \* value returned by the last fetch call
    pos,              \* index in data.data of the next transaction
    new_transactions, \* main's list of transactions to alert
    api_key_index,    \* the round-robin cursor
    attempt,          \* loop variable of the fetch function
    embeds,           \* argument of the delivery function
    i,                \* loop variable of the delivery function
    total_sent,       \* counters of the delivery function
    total_failed,
    result,           \* value returned by the delivery function
    ret,              \* where control goes when the delivery function returns
    \* discord_alerts.py, monitor_insider_activity:
    SEEN_TRADES_FILE, \* the ids in seen_trades.txt
    SEEN_8K_FILE,     \* the ids in seen_8k.txt
    seen_trades,      \* the set loaded from seen_trades.txt
    seen_8k,          \* the set loaded from seen_8k.txt
    form4_alerts,     \* counters of the alerts sent
    form8k_alerts,
    all_new_trades,   \* the new Form 4 trades collected over the watchlist
    filings,          \* the 8-K filings fetched for the current symbol
    \* What the outside world sees, recorded where a specification needs it:
    reqs,             \* requests issued by the current/last fetch call
    slept,            \* back-off sleeps of the current/last fetch call
    posts,            \* POSTs issued by the delivery call
    accepted,         \* ids of the notifications the webhook has accepted
    upstream,         \* SpecTwice: the fixed outcome of each symbol's fetch
    runlog,           \* SpecTwice: what each completed run loaded and queued
    calls,            \* requests issued by the run so far
    hooks,            \* webhook requests issued by the run so far
    observed          \* when each event was first fetched, and whether alerted

cfgv   == <<monitor, API_KEYS, DISCORD_WEBHOOK, DISCORD_WEBHOOK_FORM4,
           DISCORD_WEBHOOK_FORM8K, FINNHUB_API_KEY>>
filev  == <<SEEN_TRADES_FILE, SEEN_8K_FILE>>
form4v == <<seen_trades, seen_8k, form4_alerts, form8k_alerts, all_new_trades,
           filings>>
clockv == <<now, ticks>>
procv  == <<history, symIdx, data, pos, new_transactions>>
fetchv == <<api_key_index, attempt>>
sendv  == <<embeds, i, total_sent, total_failed, result>>
obsv   == <<reqs, slept, posts, accepted, upstream, runlog, calls, hooks, observed>>
vars   == <<cfgv, clockv, disk, file_state, pc, procv, fetchv, sendv, ret, filev,
           form4v, obsv>>

-----------------------------------------------------------------------------
(* Bounds of the model *)

NumSymbols == 2
NumNames == 1
MaxResp == 2
MaxKeys == 2
MaxTicks == 1
MaxEmbeds == 23
MaxTrades == 3
MaxFilings == 1
NumIpos == 2

(* Constants of the program *)

MIN_TRANSACTION_VALUE == 100000
MIN_SHARES_CHANGED == 10000
max_retries == 3
BACKOFF_SECONDS == 5
RETENTION_DAYS == 30
BATCH_SIZE == 10
\* eps_surprises_alert.py
MIN_IPO_VALUE == 1000000000
IPO_RETENTION_DAYS == 90
\* discord_alerts.py
MIN_AMOUNT == 100000
FETCH_LIMIT == 7
ALERT_LIMIT == 5
\* insider_sentiment_alert.py
MSPR_THRESHOLD == 20

-----------------------------------------------------------------------------
(* Data *)

SYMBOLS_TO_MONITOR == [s \in 1..NumSymbols |-> s]

Names == 1..NumNames

\* What a transaction record says besides its identity: a trade below both
\* thresholds, one above the value threshold, one above the share threshold.
Payloads ==
    {[change |-> 5000, transactionPrice |-> 0],
     [change |-> -5000, transactionPrice |-> 30],
     [change |-> 15000, transactionPrice |-> 0]}

\* The transactions the API may return for symbol s.  `name` stands for the
\* insider name, transaction date, share count and transaction code together.
Transactions(s) ==
    {[symbol |-> s, name |-> n, change |-> p.change,
      transactionPrice |-> p.transactionPrice] : n \in Names, p \in Payloads}

AllTransactions == UNION {Transactions(s) : s \in 1..NumSymbols}

create_transaction_id(transaction) == <<transaction.symbol, transaction.name>>

Ids == {create_transaction_id(t) : t \in AllTransactions}

Abs(x) == IF x < 0 THEN -x ELSE x

Min(a, b) == IF a < b THEN a ELSE b

\* One snapshot of upstream data holds one record per event: equal ids, equal
\* records.  The same record may be listed more than once.
Responses(s) ==
    UNION {{[j \in 1..n |->
                [symbol |-> s, name |-> q[j], change |-> f[q[j]].change,
                 transactionPrice |-> f[q[j]].transactionPrice]] :
              q \in [1..n -> Names], f \in [Names -> Payloads]} :
           n \in 0..MaxResp}

None == [is_none |-> TRUE, data |-> <<>>]

Json(r) == [is_none |-> FALSE, data |-> r]

HttpStatuses == {"ok", "429", "http_error", "exception"}

KeyPools == {[k \in 1..n |-> k] : n \in 0..MaxKeys}


-----------------------------------------------------------------------------
(* The pieces of scripts/insider_transactions_alert.py *)

\* a deviation for comparison: the cursor is not used.
get_first_api_key == API_KEYS[1]

get_next_api_key == API_KEYS[(api_key_index % Len(API_KEYS)) + 1]

EmptyHistory == [k \in {} |-> None]

\* the conditions load_history may find the snapshot file in: no file, a
\* file of no characters, a file that is not JSON, a file that cannot be
\* opened, and a file save_history wrote
FileStates == {"missing", "empty", "malformed", "unreadable", "valid"}

\* the scripts whose load_history is modelled; "insider_sentiment" is the
\* top-level insider_sentiment_alert.py
LoadMonitors ==
    {"insider_transactions", "eps_surprises", "ipo_calendar", "insider_sentiment"}

\* does load_history raise?  insider_transactions, lines 64-75: open() is
\* inside the try, but only JSONDecodeError and ValueError are caught;
\* ipo_calendar, lines 40-44: every Exception is caught; top-level
\* insider_sentiment_alert.py, lines 31-33: nothing is caught.
LoadRaises(m, state) ==
    IF m = "ipo_calendar" THEN FALSE
    ELSE IF m = "insider_sentiment"
    THEN state \in {"empty", "malformed", "unreadable"}
    ELSE state = "unreadable"

\* the value load_history returns when it does not raise
load_history(m, state, file) == IF state = "valid" THEN file ELSE EmptyHistory

\* main goes on after load_history; only insider_transactions' main is
\* followed beyond that point
AfterLoad(m) == IF m = "insider_transactions" THEN "fetch" ELSE "loaded"

save_history(h) == h

\* a deviation for comparison: both thresholds must be met.
is_significant_both(transaction) ==
    LET change == transaction.change
        transaction_price == transaction.transactionPrice
        transaction_value ==
            IF transaction_price # 0 THEN Abs(change * transaction_price) ELSE 0
    IN  transaction_value >= MIN_TRANSACTION_VALUE
            /\ Abs(change) >= MIN_SHARES_CHANGED

is_significant_transaction(transaction) ==
    LET change == transaction.change
        transaction_price == transaction.transactionPrice
        transaction_value ==
            IF transaction_price # 0 THEN Abs(change * transaction_price) ELSE 0
    IN  transaction_value >= MIN_TRANSACTION_VALUE
            \/ Abs(change) >= MIN_SHARES_CHANGED

format_discord_embed(transaction) ==
    LET change == transaction.change
        transaction_price == transaction.transactionPrice
    IN  [title |-> <<IF change > 0 THEN "BUY"
                     ELSE IF change < 0 THEN "SELL" ELSE "OTHER",
                     transaction.symbol>>,
         description |-> transaction.name,
         change |-> change,
         value |-> IF transaction_price # 0 THEN change * transaction_price ELSE 0]

\* The event a notification is about.
EmbedId(embed) == <<embed.title[2], embed.description>>

\* main, line 299: has the transaction been seen before?
\* a deviation for comparison: an expired record counts as absent.
IsNewOrExpired(transaction_id, h) ==
    \/ transaction_id \notin DOMAIN h
    \/ h[transaction_id].first_seen <= now - RETENTION_DAYS

IsNew(transaction_id, h) == transaction_id \notin DOMAIN h

\* a deviation for comparison: significance alone decides, the history is
\* not consulted.
ShouldQueueIgnoringHistory(transaction, h) ==
    is_significant_transaction(transaction)

\* main, lines 299-302: the transaction joins the list to alert.
ShouldQueue(transaction, h) ==
    IsNew(create_transaction_id(transaction), h)
        /\ is_significant_transaction(transaction)

\* a deviation for comparison: the record is written on every fetch.
RecordAlways(transaction, h, today) ==
    LET transaction_id == create_transaction_id(transaction)
    IN  [k \in DOMAIN h \cup {transaction_id} |->
            IF k = transaction_id
            THEN [first_seen |-> today, transaction |-> transaction]
            ELSE h[k]]

\* main, lines 299 and 308-311: the history after evaluating the transaction.
Record(transaction, h, today) ==
    LET transaction_id == create_transaction_id(transaction)
    IN  IF IsNew(transaction_id, h)
        THEN [k \in DOMAIN h \cup {transaction_id} |->
                 IF k = transaction_id
                 THEN [first_seen |-> today, transaction |-> transaction]
                 ELSE h[k]]
        ELSE h

\* a deviation for comparison: nothing is evicted.
CleanupNothing(h, today) == h

\* a deviation for comparison: the comparison with the cutoff is reversed.
CleanupReversed(h, today) ==
    LET cutoff_date == today - RETENTION_DAYS
    IN  [k \in {x \in DOMAIN h : h[x].first_seen < cutoff_date} |-> h[k]]

\* main, lines 322-326: keep the records first seen after the cutoff.
Cleanup(h, today) ==
    LET cutoff_date == today - RETENTION_DAYS
    IN  [k \in {x \in DOMAIN h : h[x].first_seen > cutoff_date} |-> h[k]]

\* a deviation for comparison: every failed attempt is retried.
RetryFetchOnAnyFailure(status) == status # "ok"

\* a deviation for comparison: other HTTP errors are retried as well.
RetryFetchOnHttpError(status) == status \in {"429", "http_error"}

\* get_insider_transactions, lines 101-106: is the failed attempt retried?
RetryFetch(status) == status = "429"

\* the scripts whose fetch function is modelled
FetchMonitors == {"insider_transactions", "ipo_calendar"}

\* the value the fetch function returns when it gives up:
\* get_insider_transactions returns None (lines 109, 112, 115),
\* get_ipo_calendar returns [] (ipo_calendar lines 80, 83, 86)
FetchFailure(m) == IF m = "ipo_calendar" THEN Json(<<>>) ELSE None

\* get_insider_transactions, line 103
wait_time(n) == (n + 1) * BACKOFF_SECONDS

\* a deviation for comparison: the loop over the symbols ends after the
\* first one.
AfterSymbolStop(idx) == "alerts"

\* a deviation for comparison: the process exits after the loop over the
\* symbols.
AfterSymbolExit(idx) == IF idx < Len(SYMBOLS_TO_MONITOR) THEN "fetch" ELSE "exit"

\* where main goes after the symbol at index idx
AfterSymbol(idx) == IF idx < Len(SYMBOLS_TO_MONITOR) THEN "fetch" ELSE "alerts"

-----------------------------------------------------------------------------
(* The monitor process *)

\* The state of a process that is not running.
NoProcess ==
    /\ history = EmptyHistory
    /\ symIdx = 0
    /\ data = None
    /\ pos = 0
    /\ new_transactions = <<>>
    /\ api_key_index = 0
    /\ attempt = 0
    /\ embeds = <<>>
    /\ i = 0
    /\ total_sent = 0
    /\ total_failed = 0
    /\ result = "None"

\* discord_alerts.py is not running: its files are absent, its settings unset
NoDiscordAlerts ==
    /\ DISCORD_WEBHOOK_FORM4 = FALSE
    /\ DISCORD_WEBHOOK_FORM8K = FALSE
    /\ FINNHUB_API_KEY = FALSE
    /\ SEEN_TRADES_FILE = {}
    /\ SEEN_8K_FILE = {}
    /\ seen_trades = {}
    /\ seen_8k = {}
    /\ form4_alerts = 0
    /\ form8k_alerts = 0
    /\ all_new_trades = <<>>
    /\ filings = <<>>

\* no event has been fetched yet
NeverObserved == [k \in {} |-> 0]

\* The process ends: its memory is gone.
ProcessEnds ==
    /\ history' = EmptyHistory
    /\ symIdx' = 0
    /\ data' = None
    /\ pos' = 0
    /\ new_transactions' = <<>>
    /\ api_key_index' = 0
    /\ attempt' = 0
    /\ embeds' = <<>>
    /\ i' = 0
    /\ total_sent' = 0
    /\ total_failed' = 0
    /\ result' = "None"

\* Time passes between two runs.
Tick(d) ==
    /\ pc = "idle"
    /\ ticks < MaxTicks
    /\ now' = now + d
    /\ ticks' = ticks + 1
    /\ UNCHANGED <<cfgv, filev, form4v, disk, file_state, pc, procv, fetchv, sendv, ret>>

\* main, lines 266-283: a process starts; without credentials it returns.
Main ==
    /\ pc = "idle"
    /\ IF Len(API_KEYS) = 0
       THEN UNCHANGED <<pc, history, symIdx>>
       ELSE IF LoadRaises(monitor, file_state)
       THEN /\ pc' = "crashed"
            /\ UNCHANGED <<history, symIdx>>
       ELSE /\ history' = load_history(monitor, file_state, disk)
            /\ symIdx' = 1
            /\ pc' = AfterLoad(monitor)
    /\ UNCHANGED <<cfgv, filev, form4v, clockv, disk, file_state, data, pos, new_transactions, fetchv,
                   sendv, ret>>

\* get_insider_transactions, lines 89-115: one attempt of the call for the
\* current symbol, and main's lines 288-294 when the call returns.
Request(status, response) ==
    /\ pc = "fetch"
    /\ api_key_index' = api_key_index + 1
    /\ IF status = "ok"
       THEN /\ data' = Json(response)
            /\ attempt' = 0
            /\ IF Len(response) > 0
               THEN /\ pos' = 1
                    /\ pc' = "evaluate"
                    /\ UNCHANGED symIdx
               ELSE /\ pos' = 0
                    /\ pc' = AfterSymbol(symIdx)
                    /\ symIdx' = symIdx + 1
       ELSE IF RetryFetch(status) /\ attempt + 1 < max_retries
       THEN /\ attempt' = attempt + 1
            /\ UNCHANGED <<data, pos, pc, symIdx>>
       ELSE /\ data' = FetchFailure(monitor)
            /\ attempt' = 0
            /\ pos' = 0
            /\ pc' = AfterSymbol(symIdx)
            /\ symIdx' = symIdx + 1
    /\ UNCHANGED <<cfgv, filev, form4v, clockv, disk, file_state, history, new_transactions, sendv, ret>>

\* main, lines 295-311: one iteration of the loop over data['data'].
EvaluateTransaction ==
    /\ pc = "evaluate"
    /\ LET transaction == data.data[pos]
       IN  /\ new_transactions' =
                  IF ShouldQueue(transaction, history)
                  THEN Append(new_transactions, transaction)
                  ELSE new_transactions
           /\ history' = Record(transaction, history, now)
    /\ IF pos < Len(data.data)
       THEN /\ pos' = pos + 1
            /\ UNCHANGED <<pc, symIdx>>
       ELSE /\ pos' = 0
            /\ pc' = AfterSymbol(symIdx)
            /\ symIdx' = symIdx + 1
    /\ UNCHANGED <<cfgv, filev, form4v, clockv, disk, file_state, data, fetchv, sendv, ret>>

\* main, lines 314-319
SendAlerts ==
    /\ pc = "alerts"
    /\ IF Len(new_transactions) > 0
       THEN /\ embeds' = [n \in 1..Len(new_transactions) |->
                             format_discord_embed(new_transactions[n])]
            /\ pc' = "send"
       ELSE /\ pc' = "cleanup"
            /\ UNCHANGED embeds
    /\ UNCHANGED <<cfgv, filev, form4v, clockv, disk, file_state, procv, fetchv, i, total_sent,
                   total_failed, result, ret>>


-----------------------------------------------------------------------------
(* The delivery functions: send_discord_alert of                            *)
(* scripts/insider_transactions_alert.py (the one of both insider sentiment *)
(* scripts is the same), send_discord_alert of scripts/eps_surprises_alert  *)
(* .py, and send_discord of scripts/ipo_calendar_alert.py.                  *)

DeliveryMonitors == {"insider_transactions", "eps_surprises", "ipo_calendar"}

\* a deviation for comparison: the slice is one element too long.
BatchOfOverlapping(e, start) ==
    SubSeq(e, start + 1, Min(start + BATCH_SIZE + 1, Len(e)))

\* range(0, len(embeds), 10) and embeds[i:i+10]
BatchOf(e, start) == SubSeq(e, start + 1, Min(start + BATCH_SIZE, Len(e)))

\* the value returned when the webhook is not configured
ReturnUnconfigured(m) == IF m = "ipo_calendar" THEN "None" ELSE "False"

\* insider_transactions lines 259-261, top-level insider_sentiment_alert.py
\* lines 142-144: a failed POST ends the function
StopsOnFailure(m) == m \in {"insider_transactions", "insider_sentiment"}

\* eps_surprises lines 211-212: only this variant counts
CountsResults(m) == m = "eps_surprises"

\* a deviation for comparison: every failed POST is retried.
RetryPostOnAnyFailure(m, status) == m = "eps_surprises" /\ status # "ok"

\* eps_surprises lines 232-239: the batch is POSTed once more
RetryPost(m, status) == m = "eps_surprises" /\ status = "429"

\* a deviation for comparison: success means that every embed was sent.
ReturnValueAllSent(m, sent) ==
    IF m = "eps_surprises"
    THEN (IF sent = Len(embeds) THEN "True" ELSE "False")
    ELSE IF m \in {"insider_transactions", "insider_sentiment"} THEN "True"
    ELSE "None"

\* the value returned after the loop
ReturnValue(m, sent) ==
    IF m = "eps_surprises" THEN (IF sent > 0 THEN "True" ELSE "False")
    ELSE IF m \in {"insider_transactions", "insider_sentiment"} THEN "True"
    ELSE "None"

\* eps_surprises lines 224, 233, 241-242, 253: the counters after a POST
SentAfter(m, sent, n, status) ==
    IF CountsResults(m) /\ status = "ok" THEN sent + n ELSE sent

\* a deviation for comparison: only HTTP errors are counted as failed.
FailedAfterPostHttpOnly(m, failed, n, status) ==
    IF CountsResults(m) /\ status \in {"429", "http_error"}
    THEN failed + n ELSE failed

FailedAfterPost(m, failed, n, status) ==
    IF CountsResults(m) /\ status # "ok" THEN failed + n ELSE failed

\* a deviation for comparison: a successful retry leaves the batch counted
\* as failed.
FailedAfterRetryKept(m, failed, n, status) == failed

FailedAfterRetry(m, failed, n, status) ==
    IF CountsResults(m) /\ status = "ok" THEN failed - n ELSE failed

\* the next iteration of the loop over the batches, or the return after it
Advance(sent) ==
    /\ i' = i + BATCH_SIZE
    /\ IF i + BATCH_SIZE < Len(embeds)
       THEN /\ pc' = "post"
            /\ UNCHANGED result
       ELSE /\ pc' = ret
            /\ result' = ReturnValue(monitor, sent)

\* the function is entered: the webhook check and the start of the loop
SendEnter ==
    /\ pc = "send"
    /\ IF ~DISCORD_WEBHOOK
       THEN /\ result' = ReturnUnconfigured(monitor)
            /\ pc' = ret
            /\ UNCHANGED <<i, total_sent, total_failed>>
       ELSE /\ i' = 0
            /\ total_sent' = 0
            /\ total_failed' = 0
            /\ IF Len(embeds) > 0
               THEN /\ pc' = "post"
                    /\ UNCHANGED result
               ELSE /\ pc' = ret
                    /\ result' = ReturnValue(monitor, 0)
    /\ UNCHANGED <<cfgv, filev, form4v, clockv, disk, file_state, procv, fetchv, embeds, ret>>

\* the first POST of the batch at i, answered with `status`
Post(status) ==
    /\ pc = "post"
    /\ LET batch == BatchOf(embeds, i)
           sent == SentAfter(monitor, total_sent, Len(batch), status)
       IN  /\ total_sent' = sent
           /\ total_failed' =
                  FailedAfterPost(monitor, total_failed, Len(batch), status)
           /\ IF status = "ok"
              THEN Advance(sent)
              ELSE IF StopsOnFailure(monitor)
              THEN /\ result' = "False"
                   /\ pc' = ret
                   /\ UNCHANGED i
              ELSE IF RetryPost(monitor, status)
              THEN /\ pc' = "retry"
                   /\ UNCHANGED <<i, result>>
              ELSE Advance(sent)
    /\ UNCHANGED <<cfgv, filev, form4v, clockv, disk, file_state, procv, fetchv, embeds, ret>>

\* eps_surprises lines 236-245: the one retry of a rate-limited batch
Retry(status) ==
    /\ pc = "retry"
    /\ LET batch == BatchOf(embeds, i)
           sent == SentAfter(monitor, total_sent, Len(batch), status)
       IN  /\ total_sent' = sent
           /\ total_failed' =
                  FailedAfterRetry(monitor, total_failed, Len(batch), status)
           /\ Advance(sent)
    /\ UNCHANGED <<cfgv, filev, form4v, clockv, disk, file_state, procv, fetchv, embeds, ret>>

\* main, lines 321-326
CleanupHistory ==
    /\ pc = "cleanup"
    /\ history' = Cleanup(history, now)
    /\ pc' = "save"
    /\ UNCHANGED <<cfgv, filev, form4v, clockv, disk, file_state, symIdx, data, pos, new_transactions,
                   fetchv, sendv, ret>>

\* main, lines 328-330: the snapshot is written and the process ends
Save ==
    /\ pc = "save"
    /\ disk' = save_history(history)
    /\ file_state' = "valid"
    /\ pc' = "idle"
    /\ ProcessEnds
    /\ UNCHANGED <<cfgv, filev, form4v, clockv, ret>>

-----------------------------------------------------------------------------
(* What the outside world sees of a step *)

\* the upstream API sees the request of the attempt, and the process sleeps
\* before a retry (get_insider_transactions, lines 94, 98 and 103-105)
LogRequest(status) ==
    /\ reqs' = Append(IF attempt = 0 THEN <<>> ELSE reqs,
                      [key |-> get_next_api_key, status |-> status])
    /\ slept' = (IF attempt = 0 THEN <<>> ELSE slept)
                    \o (IF RetryFetch(status) THEN <<wait_time(attempt)>> ELSE <<>>)
    /\ calls' = Append(calls, [symbol |-> SYMBOLS_TO_MONITOR[symIdx],
                               key |-> get_next_api_key,
                               attempt |-> attempt,
                               status |-> status])

\* the webhook sees the POST of the batch at i
LogPost(status, retry) ==
    posts' = Append(posts, [i |-> i, batch |-> BatchOf(embeds, i),
                            status |-> status, retry |-> retry])

\* the webhook accepts the notifications of a POST it answers with 2xx
Accept(status) ==
    accepted' = IF status = "ok"
                THEN accepted \cup {EmbedId(BatchOf(embeds, i)[n]) :
                                        n \in 1..Len(BatchOf(embeds, i))}
                ELSE accepted

-----------------------------------------------------------------------------
(* Spec: runs of the insider transactions monitor, one after another *)

\* the time between two runs: just inside the retention horizon, at it, or
\* just beyond it
TickDays == {RETENTION_DAYS - 1, RETENTION_DAYS, RETENTION_DAYS + 1}

NoUpstream == [s \in {} |-> None]

\* no credential, or all of them
ConfiguredPools == {[k \in 1..n |-> k] : n \in {0, MaxKeys}}

Init ==
    /\ monitor = "insider_transactions"
    /\ API_KEYS \in ConfiguredPools
    /\ DISCORD_WEBHOOK \in BOOLEAN
    /\ now = 0
    /\ ticks = 0
    /\ disk = EmptyHistory
    /\ file_state = "missing"
    /\ pc = "idle"
    /\ NoProcess
    /\ ret = "cleanup"
    /\ reqs = <<>>
    /\ slept = <<>>
    /\ posts = <<>>
    /\ accepted = {}
    /\ upstream = NoUpstream
    /\ runlog = <<>>
    /\ calls = <<>>
    /\ hooks = <<>>
    /\ observed = NeverObserved
    /\ NoDiscordAlerts

Next ==
    \/ \E d \in TickDays : Tick(d) /\ UNCHANGED obsv
    \/ Main /\ UNCHANGED obsv
    \/ \E status \in HttpStatuses :
         \E response \in (IF status = "ok" /\ pc = "fetch"
                          THEN Responses(SYMBOLS_TO_MONITOR[symIdx])
                          ELSE {<<>>}) :
            Request(status, response) /\ UNCHANGED obsv
    \/ EvaluateTransaction /\ UNCHANGED obsv
    \/ SendAlerts /\ UNCHANGED obsv
    \/ SendEnter /\ UNCHANGED obsv
    \/ \E status \in HttpStatuses :
         Post(status) /\ Accept(status)
            /\ UNCHANGED <<reqs, slept, posts, upstream, runlog, calls, hooks, observed>>
    \/ CleanupHistory /\ UNCHANGED obsv
    \/ Save /\ UNCHANGED obsv

Spec == Init /\ [][Next]_vars

-----------------------------------------------------------------------------
(* SpecFetch: the fetch loop of one run, with every request and every      *)
(* back-off sleep recorded                                                  *)

InitFetch ==
    /\ monitor = "insider_transactions"
    /\ API_KEYS \in KeyPools
    /\ DISCORD_WEBHOOK = TRUE
    /\ now = 0
    /\ ticks = 0
    /\ disk = EmptyHistory
    /\ file_state = "missing"
    /\ pc = "idle"
    /\ NoProcess
    /\ ret = "cleanup"
    /\ reqs = <<>>
    /\ slept = <<>>
    /\ posts = <<>>
    /\ accepted = {}
    /\ upstream = NoUpstream
    /\ runlog = <<>>
    /\ calls = <<>>
    /\ hooks = <<>>
    /\ observed = NeverObserved
    /\ NoDiscordAlerts

\* the requests of a fetch do not depend on the records that come back: an
\* empty answer and the answers of one record stand for all of them
ShortResponses(s) == {r \in Responses(s) : Len(r) <= 1}

NextFetch ==
    \/ Main /\ UNCHANGED obsv
    \/ \E status \in HttpStatuses :
         \E response \in (IF status = "ok" /\ pc = "fetch"
                          THEN ShortResponses(SYMBOLS_TO_MONITOR[symIdx])
                          ELSE {<<>>}) :
            Request(status, response) /\ LogRequest(status)
                /\ UNCHANGED <<posts, accepted, upstream, runlog, hooks, observed>>
    \/ EvaluateTransaction /\ UNCHANGED obsv

SpecFetch == InitFetch /\ [][NextFetch]_vars

-----------------------------------------------------------------------------
(* SpecCall: the calls of a fetch function, one after the other.  For
   ipo_calendar the entries of the list stand for the date windows main asks
   for.  What the caller does with a result that holds records is left out. *)

InitCall ==
    /\ monitor \in FetchMonitors
    /\ API_KEYS \in KeyPools \ {<<>>}
    /\ DISCORD_WEBHOOK = TRUE
    /\ now = 0
    /\ ticks = 0
    /\ disk = EmptyHistory
    /\ file_state = "missing"
    /\ pc = "fetch"
    /\ history = EmptyHistory
    /\ symIdx = 1
    /\ data = None
    /\ pos = 0
    /\ new_transactions = <<>>
    /\ api_key_index = 0
    /\ attempt = 0
    /\ embeds = <<>>
    /\ i = 0
    /\ total_sent = 0
    /\ total_failed = 0
    /\ result = "None"
    /\ ret = "cleanup"
    /\ reqs = <<>>
    /\ slept = <<>>
    /\ posts = <<>>
    /\ accepted = {}
    /\ upstream = NoUpstream
    /\ runlog = <<>>
    /\ calls = <<>>
    /\ hooks = <<>>
    /\ observed = NeverObserved
    /\ NoDiscordAlerts

NextCall ==
    \E status \in HttpStatuses :
        \E response \in (IF status = "ok" /\ pc = "fetch"
                         THEN ShortResponses(SYMBOLS_TO_MONITOR[symIdx])
                         ELSE {<<>>}) :
            Request(status, response) /\ LogRequest(status)
                /\ UNCHANGED <<posts, accepted, upstream, runlog, hooks, observed>>

SpecCall == InitCall /\ [][NextCall]_vars

-----------------------------------------------------------------------------
(* SpecLoad: a run that finds the snapshot file in a condition other than
   the one save_history leaves it in. *)

InitLoad ==
    /\ monitor \in LoadMonitors
    /\ API_KEYS \in {[k \in 1..MaxKeys |-> k]}
    /\ DISCORD_WEBHOOK = TRUE
    /\ now = 0
    /\ ticks = 0
    /\ disk = EmptyHistory
    /\ file_state \in FileStates \ {"valid"}
    /\ pc = "idle"
    /\ NoProcess
    /\ ret = "cleanup"
    /\ reqs = <<>>
    /\ slept = <<>>
    /\ posts = <<>>
    /\ accepted = {}
    /\ upstream = NoUpstream
    /\ runlog = <<>>
    /\ calls = <<>>
    /\ hooks = <<>>
    /\ observed = NeverObserved
    /\ NoDiscordAlerts

NextLoad ==
    \/ Main /\ UNCHANGED obsv
    \/ \E response \in (IF pc = "fetch"
                        THEN Responses(SYMBOLS_TO_MONITOR[symIdx])
                        ELSE {<<>>}) :
            Request("ok", response) /\ UNCHANGED obsv
    \/ EvaluateTransaction /\ UNCHANGED obsv

SpecLoad == InitLoad /\ [][NextLoad]_vars

-----------------------------------------------------------------------------
(* SpecDeliver: one call of a delivery function *)

SampleEmbeds(n) ==
    [j \in 1..n |-> format_discord_embed(
        [symbol |-> 1, name |-> j, change |-> 15000, transactionPrice |-> 0])]

InitDeliver ==
    /\ monitor \in DeliveryMonitors
    /\ API_KEYS \in {[k \in 1..MaxKeys |-> k]}
    /\ DISCORD_WEBHOOK \in BOOLEAN
    /\ now = 0
    /\ ticks = 0
    /\ disk = EmptyHistory
    /\ file_state = "missing"
    /\ pc = "send"
    /\ history = EmptyHistory
    /\ symIdx = 0
    /\ data = None
    /\ pos = 0
    /\ new_transactions = <<>>
    /\ api_key_index = 0
    /\ attempt = 0
    /\ embeds \in {SampleEmbeds(n) : n \in 0..MaxEmbeds}
    /\ i = 0
    /\ total_sent = 0
    /\ total_failed = 0
    /\ result = "None"
    /\ ret = "returned"
    /\ reqs = <<>>
    /\ slept = <<>>
    /\ posts = <<>>
    /\ accepted = {}
    /\ upstream = NoUpstream
    /\ runlog = <<>>
    /\ calls = <<>>
    /\ hooks = <<>>
    /\ observed = NeverObserved
    /\ NoDiscordAlerts

NextDeliver ==
    \/ SendEnter /\ UNCHANGED obsv
    \/ \E status \in HttpStatuses :
         Post(status) /\ LogPost(status, FALSE) /\ Accept(status)
            /\ UNCHANGED <<reqs, slept, upstream, runlog, calls, hooks, observed>>
    \/ \E status \in HttpStatuses :
         Retry(status) /\ LogPost(status, TRUE) /\ Accept(status)
            /\ UNCHANGED <<reqs, slept, upstream, runlog, calls, hooks, observed>>

SpecDeliver == InitDeliver /\ [][NextDeliver]_vars

-----------------------------------------------------------------------------
(* SpecTwice: two runs in immediate succession, the outcome of every        *)
(* symbol's fetch fixed at the start                                        *)

\* a snapshot an earlier run of the same day has saved
SavedHistories ==
    UNION {{[k \in S |->
                [first_seen |-> 0,
                 transaction |->
                     [symbol |-> k[1], name |-> k[2], change |-> f[k].change,
                      transactionPrice |-> f[k].transactionPrice]]] :
              f \in [S -> Payloads]} :
           S \in SUBSET Ids}

\* what the fetch of a symbol comes to: a failure, or the records returned
FetchOutcomes(s) == {None} \cup {Json(r) : r \in Responses(s)}

\* a rate-limited attempt may precede the outcome the fetch comes to
Scripted(status) ==
    LET outcome == upstream[SYMBOLS_TO_MONITOR[symIdx]]
    IN  IF outcome.is_none
        THEN status # "ok"
        ELSE status = "ok" \/ (status = "429" /\ attempt + 1 < max_retries)

InitTwice ==
    /\ monitor = "insider_transactions"
    /\ API_KEYS \in {[k \in 1..MaxKeys |-> k]}
    /\ DISCORD_WEBHOOK \in BOOLEAN
    /\ now = 0
    /\ ticks = 0
    /\ disk \in SavedHistories
    /\ file_state = "valid"
    /\ pc = "idle"
    /\ NoProcess
    /\ ret = "cleanup"
    /\ reqs = <<>>
    /\ slept = <<>>
    /\ posts = <<>>
    /\ accepted = {}
    /\ upstream \in {u \in [1..NumSymbols -> UNION {FetchOutcomes(s) : s \in 1..NumSymbols}] :
                        \A s \in 1..NumSymbols : u[s] \in FetchOutcomes(s)}
    /\ runlog = <<>>
    /\ calls = <<>>
    /\ hooks = <<>>
    /\ observed = NeverObserved
    /\ NoDiscordAlerts

NextTwice ==
    \/ Len(runlog) < 2 /\ Main /\ UNCHANGED obsv
    \/ \E status \in HttpStatuses :
         /\ pc = "fetch"
         /\ Scripted(status)
         /\ Request(status, upstream[SYMBOLS_TO_MONITOR[symIdx]].data)
         /\ UNCHANGED obsv
    \/ EvaluateTransaction /\ UNCHANGED obsv
    \/ SendAlerts /\ UNCHANGED obsv
    \/ SendEnter /\ UNCHANGED obsv
    \/ \E status \in HttpStatuses :
         Post(status) /\ Accept(status)
            /\ UNCHANGED <<reqs, slept, posts, upstream, runlog, calls, hooks, observed>>
    \/ CleanupHistory /\ UNCHANGED obsv
    \/ /\ Save
       /\ runlog' = Append(runlog, [loaded |-> DOMAIN disk,
                                    queued |-> new_transactions])
       /\ UNCHANGED <<reqs, slept, posts, accepted, upstream, calls, hooks, observed>>

SpecTwice == InitTwice /\ [][NextTwice]_vars

-----------------------------------------------------------------------------
(* Claims *)

\* how often the event with id k is in a list of transactions
Count(k, list) ==
    Cardinality({n \in 1..Len(list) : create_transaction_id(list[n]) = k})

\* SpecTwice: the records the fixed upstream data holds, and their ids
UpstreamRecords ==
    UNION {{upstream[s].data[n] : n \in 1..Len(upstream[s].data)} :
           s \in DOMAIN upstream}

UpstreamIds == {create_transaction_id(t) : t \in UpstreamRecords}

UpstreamRecord(k) == CHOOSE t \in UpstreamRecords : create_transaction_id(t) = k

\* C1 (as amended): when the monitor runs twice in immediate succession and
\* every fetch comes to the same outcome in both runs, the first run queues
\* exactly one notification for every fetched event that is significant and
\* not in the history it loaded, none for any other event, and the second
\* run queues none.
C1_DedupIdempotence ==
    \A k \in UpstreamIds :
        /\ Len(runlog) >= 1 =>
              Count(k, runlog[1].queued) =
                  IF k \notin runlog[1].loaded
                        /\ is_significant_transaction(UpstreamRecord(k))
                  THEN 1 ELSE 0
        /\ Len(runlog) >= 2 => Count(k, runlog[2].queued) = 0

\* C1 as stated: the first run queues exactly one notification for every
\* significant event, the second none.
C1_AsStated ==
    \A k \in UpstreamIds :
        /\ Len(runlog) >= 1 /\ is_significant_transaction(UpstreamRecord(k))
              => Count(k, runlog[1].queued) = 1
        /\ Len(runlog) >= 2 => Count(k, runlog[2].queued) = 0

\* C1's case: both runs are over, the first queued an event once that is
\* listed twice upstream, and left out one the history already held.
C1_Witness ==
    /\ Len(runlog) = 2
    /\ \E k \in UpstreamIds :
          /\ Count(k, runlog[1].queued) = 1
          /\ \E s \in DOMAIN upstream : Count(k, upstream[s].data) = 2
    /\ \E k \in UpstreamIds :
          /\ k \in runlog[1].loaded
          /\ is_significant_transaction(UpstreamRecord(k))

\* C2: an evaluated transaction joins the list to alert iff its id is not in
\* the in-memory history at that moment and it is significant; the list
\* changes in no other step of a run; and no event whose id is in the
\* in-memory history or in the saved snapshot is ever added to it.
C2_QueueIffNewAndSignificant ==
    [][/\ pc = "evaluate" =>
            LET t == data.data[pos]
                new == create_transaction_id(t) \notin DOMAIN history
            IN  new_transactions' =
                    IF new /\ is_significant_transaction(t)
                    THEN Append(new_transactions, t)
                    ELSE new_transactions
       /\ pc # "evaluate" /\ pc' # "idle" => new_transactions' = new_transactions
       /\ \A k \in DOMAIN history \cup DOMAIN disk :
            Count(k, new_transactions') <= Count(k, new_transactions)
      ]_vars

\* C2's case: a later run has fetched a significant transaction whose id an
\* earlier run saved and has not queued it, while it queued another one.
C2_Witness ==
    /\ pc = "alerts"
    /\ Len(new_transactions) > 0
    /\ \E n \in 1..Len(data.data) :
          /\ is_significant_transaction(data.data[n])
          /\ create_transaction_id(data.data[n]) \in DOMAIN disk
          /\ Count(create_transaction_id(data.data[n]), new_transactions) = 0

\* C3 as stated, in the form a finite run refutes: no significant event is
\* recorded as seen in the saved snapshot unless the webhook has accepted
\* its notification.
C3_SeenImpliesDelivered ==
    \A k \in DOMAIN disk :
        is_significant_transaction(disk[k].transaction) => k \in accepted

\* the POSTs of the call so far that were a batch's first attempt
FirstPosts == SelectSeq(posts, LAMBDA p : ~p.retry)

\* the number of batches a list of n embeds is split into
NumBatches(n) == (n + BATCH_SIZE - 1) \div BATCH_SIZE

\* the batches of a list of POSTs, one after the other
RECURSIVE Concat(_)
Concat(ps) == IF ps = <<>> THEN <<>> ELSE Head(ps).batch \o Concat(Tail(ps))

\* the call has returned with a webhook configured
Returned == pc = "returned" /\ DISCORD_WEBHOOK

\* C4 as stated, in the form a finite run refutes: when a delivery call with
\* a webhook has returned, it has attempted ceil(len / 10) batches, whatever
\* the outcomes of the POSTs were.
C4_AllBatchesAttempted ==
    Returned => Len(FirstPosts) = NumBatches(Len(embeds))

\* one batch was answered 429 and succeeded when retried, every other POST
\* succeeded
OneBatchRecovered ==
    /\ \A n \in 1..Len(posts) :
          \/ posts[n].status = "ok"
          \/ posts[n].status = "429" /\ ~posts[n].retry
    /\ Cardinality({n \in 1..Len(posts) : posts[n].status = "429"}) = 1

\* C5: when eps_surprises' send_discord_alert has returned and exactly one
\* batch was answered 429 and succeeded on its retry while every other batch
\* succeeded at once, total_sent is the number of embeds, total_failed is 0
\* and every batch was attempted.
C5_RecoveredBatchCounts ==
    monitor = "eps_surprises" /\ Returned /\ OneBatchRecovered =>
        /\ total_sent = Len(embeds)
        /\ total_failed = 0
        /\ Len(FirstPosts) = NumBatches(Len(embeds))
        /\ result = "True"

\* C5's case: 23 embeds in batches of 10, 10 and 3, the second answered 429
\* and then accepted.
C5_Witness ==
    /\ monitor = "eps_surprises" /\ Returned /\ OneBatchRecovered
    /\ Len(embeds) = 23
    /\ Len(posts) = 4
    /\ posts[2].i = BATCH_SIZE /\ posts[2].status = "429"
    /\ posts[3].i = BATCH_SIZE /\ posts[3].retry
    /\ Len(posts[4].batch) = 3
    /\ total_sent = 23 /\ total_failed = 0

\* C6: in eps_surprises a batch is POSTed at most twice; a second POST of a
\* batch directly follows a first POST of it that was answered 429; a batch
\* answered 429 is POSTed exactly once more; a batch whose first POST failed
\* otherwise, or whose retry failed, is not POSTed again.
C6_AtMostOneRetry ==
    monitor = "eps_surprises" =>
        \A n \in 1..Len(posts) :
            /\ Cardinality({m \in 1..Len(posts) : posts[m].i = posts[n].i}) <= 2
            /\ posts[n].retry =>
                  /\ n > 1
                  /\ posts[n - 1].i = posts[n].i
                  /\ ~posts[n - 1].retry
                  /\ posts[n - 1].status = "429"
            /\ ~posts[n].retry /\ posts[n].status = "429" =>
                  IF n = Len(posts)
                  THEN pc = "retry" /\ i = posts[n].i
                  ELSE posts[n + 1].retry /\ posts[n + 1].i = posts[n].i
            /\ (posts[n].retry \/ posts[n].status # "429") =>
                  /\ n < Len(posts) => posts[n + 1].i > posts[n].i
                  /\ n = Len(posts) => pc = "returned" \/ i > posts[n].i

\* C6's case: one batch was answered 429 and failed again on its retry,
\* another failed with another error, and the call went on to the end.
C6_Witness ==
    /\ monitor = "eps_surprises" /\ Returned
    /\ Len(FirstPosts) = 3
    /\ \E n \in 1..Len(posts) : posts[n].retry /\ posts[n].status = "429"
    /\ \E n \in 1..Len(posts) : ~posts[n].retry /\ posts[n].status = "http_error"

\* C7: the batches of a call, in the order they are sent, are consecutive
\* slices of the list: each holds 1 to 10 embeds, only the last slice of the
\* list holds fewer than 10, together they are a prefix of the list with
\* every embed in one batch only, and the whole list when the loop has run
\* to its end.
C7_BatchesPartition ==
    LET sent == Concat(FirstPosts)
    IN  /\ Len(sent) <= Len(embeds)
        /\ sent = SubSeq(embeds, 1, Len(sent))
        /\ \A n \in 1..Len(FirstPosts) :
              LET p == FirstPosts[n]
              IN  /\ Len(p.batch) \in 1..BATCH_SIZE
                  /\ p.i = (n - 1) * BATCH_SIZE
                  /\ Len(p.batch) < BATCH_SIZE =>
                        p.i + Len(p.batch) = Len(embeds)
        /\ \A n \in 1..Len(posts) :
              posts[n].retry => posts[n].batch = posts[n - 1].batch
        /\ Returned /\ i >= Len(embeds) => sent = embeds

\* C7's case: 23 embeds went out as batches of 10, 10 and 3.
C7_Witness ==
    /\ Returned
    /\ Len(embeds) = 23
    /\ Len(FirstPosts) = 3
    /\ Len(FirstPosts[1].batch) = 10
    /\ Len(FirstPosts[2].batch) = 10
    /\ Len(FirstPosts[3].batch) = 3
    /\ Concat(FirstPosts) = embeds

\* C8: in eps_surprises' send_discord_alert with a webhook, total_sent and
\* total_failed are never negative, total_sent counts exactly the embeds of
\* the POSTs the webhook accepted, and at the return the two add up to the
\* number of embeds.
C8_CountersAccount ==
    monitor = "eps_surprises" /\ DISCORD_WEBHOOK /\ pc # "send" =>
        /\ total_sent >= 0
        /\ total_failed >= 0
        /\ total_sent = Cardinality(accepted)
        /\ total_sent = Len(Concat(SelectSeq(posts, LAMBDA p : p.status = "ok")))
        /\ pc = "returned" => total_sent + total_failed = Len(embeds)

\* C8's case: a call that returned after a success, a recovered batch and a
\* batch lost to an error that is not an HTTP error.
C8_Witness ==
    /\ monitor = "eps_surprises" /\ Returned
    /\ total_sent = 20 /\ total_failed = 3
    /\ \E n \in 1..Len(posts) : posts[n].retry /\ posts[n].status = "ok"
    /\ \E n \in 1..Len(posts) : ~posts[n].retry /\ posts[n].status = "exception"

\* C9: eps_surprises' send_discord_alert returns True iff total_sent > 0,
\* that is iff the webhook accepted at least one POST; a call in which some
\* batches failed and some succeeded returns True.
C9_TrueIffSomeSent ==
    monitor = "eps_surprises" /\ pc = "returned" =>
        /\ result \in {"True", "False"}
        /\ result = "True" <=> total_sent > 0
        /\ result = "True" <=> \E n \in 1..Len(posts) : posts[n].status = "ok"

\* C9's case: a call that returned True although a batch failed.
C9_Witness ==
    /\ monitor = "eps_surprises" /\ Returned
    /\ result = "True"
    /\ total_failed > 0
    /\ total_sent > 0

\* the fetch has returned; the requests of the call are in reqs
CallReturned == attempt = 0 /\ Len(reqs) > 0

\* C10: a fetch issues at most max_retries = 3 requests; a request after the
\* first follows a request answered 429; a call that has returned after a
\* last answer of 429 has issued exactly 3 requests and has failed.
C10_AtMostThreeRequests ==
    /\ Len(reqs) <= max_retries
    /\ \A n \in 1..(Len(reqs) - 1) : reqs[n].status = "429"
    /\ attempt > 0 => Len(reqs) = attempt /\ reqs[attempt].status = "429"
    /\ CallReturned /\ reqs[Len(reqs)].status = "429" =>
          Len(reqs) = max_retries /\ data = None

\* C10's case: three requests, all answered 429, and the call has failed.
C10_Witness ==
    /\ CallReturned
    /\ Len(reqs) = 3
    /\ \A n \in 1..3 : reqs[n].status = "429"
    /\ data = None

\* C11 as stated, in the form a finite run refutes: the k-th wait of a fetch
\* is 5 * k seconds, follows an attempt answered 429, and is followed by
\* another attempt of the same fetch (made already, or about to be made).
C11_BackoffPrecedesRetry ==
    \A k \in 1..Len(slept) :
        /\ slept[k] = BACKOFF_SECONDS * k
        /\ reqs[k].status = "429"
        /\ Len(reqs) > k \/ attempt > 0

\* C12: the cursor counts the requests of the run; the n-th request (from
\* 0) uses API_KEYS[n mod N]; with N > 1 a retry uses another credential
\* than the attempt before it; N consecutive requests use every credential.
C12_RoundRobin ==
    LET N == Len(API_KEYS)
    IN  /\ api_key_index = Len(calls)
        /\ \A n \in 1..Len(calls) :
              /\ calls[n].key = API_KEYS[((n - 1) % N) + 1]
              /\ N > 1 /\ calls[n].attempt > 0 => calls[n].key # calls[n - 1].key
              /\ N = 1 => calls[n].key = API_KEYS[1]
              /\ n + N - 1 <= Len(calls) =>
                    {calls[m].key : m \in n..(n + N - 1)} =
                        {API_KEYS[j] : j \in 1..N}

\* C12's case: two credentials, the rotation has wrapped around and a retry
\* was among the requests.
C12_Witness ==
    /\ Len(API_KEYS) = 2
    /\ Len(calls) >= 4
    /\ \E n \in 1..Len(calls) : calls[n].attempt > 0
    /\ \E n \in 2..Len(calls) : calls[n].attempt = 0

\* C13: a request answered with an HTTP error other than 429, or failing in
\* transport, is the last request of its call: the call has returned the
\* failure value, and when it was the first attempt exactly one request was
\* made.
C13_NoRetryOnOtherErrors ==
    \A n \in 1..Len(reqs) :
        reqs[n].status \in {"http_error", "exception"} =>
            /\ n = Len(reqs)
            /\ attempt = 0
            /\ data = FetchFailure(monitor)
            /\ pc # "evaluate"

\* C13's case: calls that ended after one request, one on an HTTP error.
C13_Witness ==
    /\ Len(reqs) = 1
    /\ reqs[1].status = "http_error"
    /\ attempt = 0
    /\ Len(calls) >= 2
    /\ \E n \in 1..Len(calls) : calls[n].status = "exception"

\* C14 as stated, in the form a finite run refutes: the value a fetch
\* returns after a failure differs from the value of a successful request
\* with an empty result.
C14_FailureDistinct ==
    CallReturned /\ reqs[Len(reqs)].status # "ok" => data # Json(<<>>)

\* the first attempts of the run's calls
FirstCalls == SelectSeq(calls, LAMBDA c : c.attempt = 0)

\* the symbols whose fetch has returned a failure
FailedSymbols ==
    {calls[n].symbol : n \in {m \in 1..Len(calls) :
        /\ calls[m].status # "ok"
        /\ IF m = Len(calls) THEN attempt = 0 ELSE calls[m + 1].attempt = 0}}

\* C15: the calls of a run are for the watchlist symbols in their order,
\* each symbol once, all of them when the loop is over, whatever the calls
\* came to; a symbol whose fetch failed has no transaction in the list to
\* alert and no record in the history of a run that started with none.
C15_FailedFetchSkipsSymbol ==
    /\ Len(FirstCalls) <= Len(SYMBOLS_TO_MONITOR)
    /\ \A n \in 1..Len(FirstCalls) : FirstCalls[n].symbol = SYMBOLS_TO_MONITOR[n]
    /\ \A n \in 2..Len(calls) :
          calls[n].attempt > 0 => calls[n].symbol = calls[n - 1].symbol
    /\ pc = "alerts" => Len(FirstCalls) = Len(SYMBOLS_TO_MONITOR)
    /\ \A sym \in FailedSymbols :
          /\ \A n \in 1..Len(new_transactions) : new_transactions[n].symbol # sym
          /\ \A k \in DOMAIN history : k[1] # sym

\* C15's case: the fetch of the first symbol failed, the run went on and
\* queued a transaction of the second.
C15_Witness ==
    /\ pc = "alerts"
    /\ SYMBOLS_TO_MONITOR[1] \in FailedSymbols
    /\ Len(new_transactions) > 0
    /\ DOMAIN history # {}

\* C16 as stated, in the form a finite run refutes: with the snapshot file
\* missing, empty, unreadable or malformed no monitor's load raises, the run
\* starts with an empty store, and when the fetches are over every fetched
\* event is in the list to alert once if it is significant.
C16_LoadRecovers ==
    file_state # "valid" =>
        /\ pc # "crashed"
        /\ pc \in {"fetch", "loaded"} /\ symIdx = 1 => history = EmptyHistory
        /\ pc = "alerts" =>
              \A k \in DOMAIN history :
                  Count(k, new_transactions) =
                      IF is_significant_transaction(history[k].transaction)
                      THEN 1 ELSE 0

\* the transaction main evaluates in this step, and its id
Evaluated == data.data[pos]

EvaluatedId == create_transaction_id(Evaluated)

\* C17: the snapshot a run saves holds no record first seen before the
\* retention horizon; an event whose id is not in the history (as after its
\* eviction) is treated as new when it is fetched: it is recorded with the
\* current time as first_seen and, if significant, is in the list to alert
\* exactly once.
C17_EvictedThenNew ==
    [][/\ pc = "save" =>
            \A k \in DOMAIN disk' : ~(disk'[k].first_seen < now - RETENTION_DAYS)
       /\ pc = "evaluate" /\ EvaluatedId \notin DOMAIN history =>
            /\ EvaluatedId \in DOMAIN history'
            /\ history'[EvaluatedId] =
                  [first_seen |-> now, transaction |-> Evaluated]
            /\ Count(EvaluatedId, new_transactions') =
                  IF is_significant_transaction(Evaluated) THEN 1 ELSE 0
      ]_vars

\* C17's case: an event alerted by an earlier run and evicted since has
\* been fetched again, queued once and recorded with today's first_seen.
C17_Witness ==
    /\ now > RETENTION_DAYS
    /\ pc = "alerts"
    /\ \E k \in accepted :
          /\ k \notin DOMAIN disk
          /\ k \in DOMAIN history
          /\ history[k].first_seen = now
          /\ Count(k, new_transactions) = 1

\* C18: records leave the history only in the eviction step, which follows
\* the last upsert of the run and is followed by the save of what it kept;
\* a fetched event whose id is in the history, expired or not, is neither
\* queued nor inserted again.
C18_EvictionOncePerRun ==
    [][/\ (\E k \in DOMAIN history : k \notin DOMAIN history') =>
            pc \in {"cleanup", "save"}
       /\ pc = "cleanup" =>
            /\ pc' = "save"
            /\ DOMAIN history' \subseteq DOMAIN history
            /\ new_transactions' = new_transactions
       /\ pc = "save" => disk' = history /\ pc' = "idle"
       /\ pc' = "save" => pc = "cleanup"
       /\ history' # history /\ pc \notin {"cleanup", "save", "idle"} =>
            pc = "evaluate"
       /\ pc = "evaluate" /\ EvaluatedId \in DOMAIN history =>
            /\ new_transactions' = new_transactions
            /\ history' = history
      ]_vars

\* C18's case: a record expired in this run; the run fetched its event
\* again, queued nothing for it and evicted it without inserting it anew.
C18_Witness ==
    /\ pc = "save"
    /\ \E k \in DOMAIN disk :
          /\ disk[k].first_seen <= now - RETENTION_DAYS
          /\ k \notin DOMAIN history
          /\ Count(k, data.data) > 0
          /\ Count(k, new_transactions) = 0

\* C19 as stated, in the form a finite run refutes: the eviction step keeps
\* every record first seen at or after now - retention horizon and removes
\* every record first seen before it.
C19_EvictsExactlyOlder ==
    [][pc = "cleanup" =>
          DOMAIN history' =
              {k \in DOMAIN history :
                  history[k].first_seen >= now - RETENTION_DAYS}
      ]_vars

\* C20 as stated, in the form a finite run refutes: after main has
\* evaluated a fetched event, the history holds a record for its id whose
\* payload is the event just fetched.
C20_RecordHasLatestPayload ==
    [][pc = "evaluate" =>
          /\ EvaluatedId \in DOMAIN history'
          /\ history'[EvaluatedId].transaction = Evaluated
      ]_vars

\* C21: no step changes the first_seen of a record that stays in the
\* history; the load gives every saved record its saved first_seen; the
\* save writes the records of the history as they are, so a record that is
\* in the snapshot before and after a run has the same first_seen.
C21_FirstSeenWriteOnce ==
    [][/\ \A k \in DOMAIN history \cap DOMAIN history' :
            history'[k].first_seen = history[k].first_seen
       /\ pc = "idle" /\ pc' = "fetch" =>
            \A k \in DOMAIN disk :
                k \in DOMAIN history'
                    /\ history'[k].first_seen = disk[k].first_seen
       /\ pc = "save" =>
            /\ disk' = history
            /\ \A k \in DOMAIN disk \cap DOMAIN disk' :
                  disk'[k].first_seen = disk[k].first_seen
      ]_vars

\* C21's case: a record of an earlier day is still in the history after its
\* event has been fetched again in a later run.
C21_Witness ==
    /\ pc = "alerts"
    /\ now > 0
    /\ \E n \in 1..Len(data.data) :
          LET k == create_transaction_id(data.data[n])
          IN  /\ k \in DOMAIN disk
              /\ k \in DOMAIN history
              /\ history[k].first_seen = 0
              /\ disk[k].first_seen = 0


\* C24: with no webhook URL configured a run fails fast before any network
\* activity: it issues no upstream request (the key cursor, advanced by every
\* request, stays where it was) and records no event in the saved history.
C24_FailsFastWithoutWebhook ==
    ~DISCORD_WEBHOOK => api_key_index = 0 /\ disk = EmptyHistory


-----------------------------------------------------------------------------
(* SpecFilter: one call of is_significant_transaction *)

\* share changes and prices on both sides of either threshold; a price of 0
\* is also what transaction.get('transactionPrice', 0) yields for a record
\* without the field
FilterChanges == {-15000, -10000, -9999, -5000, 0, 5000, 9999, 10000, 12500, 15000}

FilterPrices == {-20, 0, 3, 4, 10, 11, 20}

FilterInputs ==
    {[symbol |-> 1, name |-> 1, change |-> c, transactionPrice |-> p] :
        c \in FilterChanges, p \in FilterPrices}

InitFilter ==
    /\ monitor = "insider_transactions"
    /\ API_KEYS = <<1>>
    /\ DISCORD_WEBHOOK = TRUE
    /\ now = 0
    /\ ticks = 0
    /\ disk = EmptyHistory
    /\ file_state = "missing"
    /\ pc = "filter"
    /\ history = EmptyHistory
    /\ symIdx = 1
    /\ \E t \in FilterInputs : data = Json(<<t>>)
    /\ pos = 1
    /\ new_transactions = <<>>
    /\ api_key_index = 0
    /\ attempt = 0
    /\ embeds = <<>>
    /\ i = 0
    /\ total_sent = 0
    /\ total_failed = 0
    /\ result = "None"
    /\ ret = "cleanup"
    /\ reqs = <<>>
    /\ slept = <<>>
    /\ posts = <<>>
    /\ accepted = {}
    /\ upstream = NoUpstream
    /\ runlog = <<>>
    /\ calls = <<>>
    /\ hooks = <<>>
    /\ observed = NeverObserved
    /\ NoDiscordAlerts

\* main, line 302: the filter is applied to the transaction
CallFilter ==
    /\ pc = "filter"
    /\ result' = IF is_significant_transaction(data.data[1]) THEN "True" ELSE "False"
    /\ pc' = "filtered"
    /\ UNCHANGED <<cfgv, filev, form4v, clockv, disk, file_state, procv, fetchv,
                   embeds, i, total_sent, total_failed, ret>>

NextFilter == CallFilter /\ UNCHANGED obsv

SpecFilter == InitFilter /\ [][NextFilter]_vars

\* the value of the trade the filter was called on, as the claim computes it
FilterValue == Abs(data.data[1].change * data.data[1].transactionPrice)

\* C30: is_significant_transaction(t) is true if and only if
\* abs(change * transactionPrice) >= 100000 or abs(change) >= 10000, a missing
\* or zero price making the value term 0.
C30_OrThreshold ==
    pc = "filtered" =>
        (result = "True" <=>
            \/ FilterValue >= 100000
            \/ Abs(data.data[1].change) >= 10000)

\* a value below the threshold with 15,000 shares is significant; the value
\* of 50,000 is reached exactly by 12,500 shares at 4
C30_Witness ==
    /\ pc = "filtered"
    /\ result = "True"
    /\ FilterValue = 50000
    /\ data.data[1].change = 12500


-----------------------------------------------------------------------------
(* SpecLive: runs one after another with no time passing in between, under *)
(* the assumption that a process that has started keeps taking its next     *)
(* step: every request is answered or times out (timeout=10 at lines 98 and *)
(* 256), every other step is local.                                         *)

RunStep ==
    \/ \E status \in HttpStatuses :
         \E response \in (IF status = "ok" /\ pc = "fetch"
                          THEN Responses(SYMBOLS_TO_MONITOR[symIdx])
                          ELSE {<<>>}) :
            Request(status, response) /\ UNCHANGED obsv
    \/ EvaluateTransaction /\ UNCHANGED obsv
    \/ SendAlerts /\ UNCHANGED obsv
    \/ SendEnter /\ UNCHANGED obsv
    \/ \E status \in HttpStatuses :
         Post(status) /\ Accept(status)
            /\ UNCHANGED <<reqs, slept, posts, upstream, runlog, calls, hooks, observed>>
    \/ CleanupHistory /\ UNCHANGED obsv
    \/ Save /\ UNCHANGED obsv

NextLive ==
    \/ Main /\ UNCHANGED obsv
    \/ RunStep

SpecLive == Init /\ [][NextLive]_vars /\ WF_vars(RunStep)

-----------------------------------------------------------------------------
(* SpecKill: the runs of SpecLive, any of which may be killed.  save_history *)
(* opens the snapshot file with mode 'w', which truncates it, and writes the *)
(* JSON text into the open file (lines 81-82): a process killed in between   *)
(* leaves the file empty, one killed while json.dump writes leaves a prefix  *)
(* of the text.                                                              *)

KillPoints == {"before_open", "after_open", "during_dump"}

\* the condition of the snapshot file when the process is killed at `point`
FileAfterKill(point) ==
    IF point = "before_open" THEN file_state
    ELSE IF point = "after_open" THEN "empty"
    ELSE "malformed"

\* the process is killed; before the save step only "before_open" applies
Kill(point) ==
    /\ pc # "idle"
    /\ point # "before_open" => pc = "save"
    /\ file_state' = FileAfterKill(point)
    /\ disk' = IF point = "before_open" THEN disk ELSE EmptyHistory
    /\ pc' = "idle"
    /\ ProcessEnds
    /\ UNCHANGED <<cfgv, filev, form4v, clockv, ret>>

NextKill ==
    \/ NextLive
    \/ \E point \in KillPoints : Kill(point) /\ UNCHANGED obsv

SpecKill == Init /\ [][NextKill]_vars

\* C26: however a run ends, killed at any point or not, the snapshot file the
\* next run reads is the complete snapshot from before the run or the
\* complete new one.
C26_SnapshotAtomic ==
    [][pc # "idle" /\ pc' = "idle" =>
          \/ (disk' = disk /\ file_state' = file_state)
          \/ (disk' = history /\ file_state' = "valid")]_vars


-----------------------------------------------------------------------------
(* discord_alerts.py: monitor_insider_activity.  The look-ups at SEC EDGAR   *)
(* that decorate a notification (fetch_sec_form4_url, extract_8k_item_codes) *)
(* catch their own errors and change no state; they are left out.           *)

WATCHLIST == [s \in 1..NumSymbols |-> s]

\* answers of the webhook: 200/204, or anything else (lines 65-74)
HookStatuses == {"ok", "error"}

\* A Form 4 answer: k trades, filed on rising or on falling dates, the first
\* one possibly worth less than MIN_AMOUNT.  `name` stands for the insider
\* name and the transaction date together.
Form4Response(k, rising, small) ==
    [n \in 1..k |->
        [name |-> n,
         filingDate |-> IF rising THEN n ELSE MaxTrades + 1 - n,
         change |-> 1000,
         transactionPrice |-> IF small /\ n = 1 THEN 10 ELSE 200]]

\* The Form 4 trades the API may return for a symbol; the last answer lists
\* two trades that agree in name, date, share count and change.
Form4Responses ==
    {Form4Response(k, TRUE, FALSE) : k \in 0..MaxTrades}
        \cup {Form4Response(MaxTrades, FALSE, FALSE),
              Form4Response(MaxTrades, TRUE, TRUE),
              Form4Response(1, TRUE, FALSE) \o Form4Response(1, TRUE, FALSE)}

\* The 8-K filings the API may return for a symbol.
Form8kResponses == {[n \in 1..k |-> [accessNumber |-> n]] : k \in 0..MaxFilings}

\* fetch_insider_trades / fetch_form8k_filings, lines 255-267 and 276-288:
\* the first 7 records of a 200 answer, [] otherwise
Fetched(status, response) ==
    IF status = "ok"
    THEN SubSeq(response, 1, Min(FETCH_LIMIT, Len(response)))
    ELSE <<>>

\* line 471
trade_id(symbol, trade) == <<symbol, trade.name, Abs(trade.change), trade.change>>

\* line 565
filing_id(symbol, filing) == <<symbol, filing.accessNumber>>

\* line 465
TradeValue(trade) ==
    IF trade.transactionPrice > 0
    THEN Abs(trade.change) * trade.transactionPrice
    ELSE 0

\* lines 473-479: is the trade collected?
IsCollected(symbol, trade, seen) ==
    /\ trade_id(symbol, trade) \notin seen
    /\ ~(TradeValue(trade) > 0 /\ TradeValue(trade) < MIN_AMOUNT)

\* lines 484-493: the entries appended to all_new_trades for one symbol
CollectTrades(symbol, trades, seen) ==
    LET sel == SelectSeq(trades, LAMBDA t : IsCollected(symbol, t, seen))
    IN  [n \in 1..Len(sel) |->
            [trade |-> sel[n], symbol |-> symbol,
             filing_date |-> sel[n].filingDate,
             trade_id |-> trade_id(symbol, sel[n])]]

\* line 513: list.sort(key=filing_date, reverse=True) is stable: entries with
\* equal dates keep their order
RECURSIVE InsertByDate(_, _)
InsertByDate(x, sorted) ==
    IF sorted = <<>> THEN <<x>>
    ELSE IF Head(sorted).filing_date >= x.filing_date
    THEN <<Head(sorted)>> \o InsertByDate(x, Tail(sorted))
    ELSE <<x>> \o sorted

\* a deviation for comparison: the list is left in the order of collection.
Unsorted(list) == list

RECURSIVE SortByFilingDate(_)
SortByFilingDate(list) ==
    IF list = <<>> THEN <<>>
    ELSE InsertByDate(list[Len(list)],
                      SortByFilingDate(SubSeq(list, 1, Len(list) - 1)))

\* a deviation for comparison: every new trade is alerted.
TopTradesAll(list) == Len(list)

\* line 516: the number of entries of all_new_trades[:5]
TopTrades(list) == Min(ALERT_LIMIT, Len(list))

\* the ids of the entries of a list of collected trades
TradeIds(list) == {list[n].trade_id : n \in 1..Len(list)}

\* lines 442-449: the function starts; there is no check of the settings
MonitorInsiderActivity ==
    /\ pc = "idle"
    /\ seen_trades' = SEEN_TRADES_FILE
    /\ seen_8k' = SEEN_8K_FILE
    /\ form4_alerts' = 0
    /\ form8k_alerts' = 0
    /\ all_new_trades' = <<>>
    /\ filings' = <<>>
    /\ symIdx' = 1
    /\ pos' = 0
    /\ pc' = "form4"
    /\ UNCHANGED <<cfgv, filev, clockv, disk, file_state, history, data,
                   new_transactions, fetchv, sendv, ret>>

\* lines 451-501: one iteration of the first loop over the watchlist
CheckForm4(status, response) ==
    /\ pc = "form4"
    /\ all_new_trades' =
          all_new_trades \o CollectTrades(WATCHLIST[symIdx],
                                          Fetched(status, response), seen_trades)
    /\ symIdx' = symIdx + 1
    /\ pc' = IF symIdx < Len(WATCHLIST) THEN "form4" ELSE "form4_sort"
    /\ UNCHANGED <<cfgv, filev, clockv, disk, file_state, history, data, pos,
                   new_transactions, fetchv, sendv, ret, seen_trades, seen_8k,
                   form4_alerts, form8k_alerts, filings>>

\* lines 506-516 and 545: the new trades are sorted, or there is none
SortTrades ==
    /\ pc = "form4_sort"
    /\ IF Len(all_new_trades) > 0
       THEN /\ all_new_trades' = SortByFilingDate(all_new_trades)
            /\ pos' = 1
            /\ symIdx' = 0
            /\ pc' = "form4_send"
       ELSE /\ pos' = 0
            /\ symIdx' = 1
            /\ pc' = "form8k"
            /\ UNCHANGED all_new_trades
    /\ UNCHANGED <<cfgv, filev, clockv, disk, file_state, history, data,
                   new_transactions, fetchv, sendv, ret, seen_trades, seen_8k,
                   form4_alerts, form8k_alerts, filings>>

\* a deviation for comparison: the call returns True whenever the URL is set.
DeliveredUnanswered(url, status) == url

\* send_discord_webhook, lines 54-74: does the call return True?
Delivered(url, status) == url /\ status = "ok"

\* lines 518-542: one iteration of the loop over top_5_trades; after the
\* last one every collected trade is marked seen
SendForm4(status) ==
    /\ pc = "form4_send"
    /\ LET trade_data == all_new_trades[pos]
           sent == Delivered(DISCORD_WEBHOOK_FORM4, status)
           marked == IF sent THEN seen_trades \cup {trade_data.trade_id}
                     ELSE seen_trades
       IN  /\ form4_alerts' = IF sent THEN form4_alerts + 1 ELSE form4_alerts
           /\ IF pos < TopTrades(all_new_trades)
              THEN /\ seen_trades' = marked
                   /\ pos' = pos + 1
                   /\ UNCHANGED <<pc, symIdx>>
              ELSE /\ seen_trades' = marked \cup TradeIds(all_new_trades)
                   /\ pos' = 0
                   /\ symIdx' = 1
                   /\ pc' = "form8k"
    /\ UNCHANGED <<cfgv, filev, clockv, disk, file_state, history, data,
                   new_transactions, fetchv, sendv, ret, seen_8k, form8k_alerts,
                   all_new_trades, filings>>

\* where the second loop goes after the symbol at index idx
AfterFilings(idx) == IF idx < Len(WATCHLIST) THEN "form8k" ELSE "save_seen"

\* lines 556-562: the 8-K filings of the next symbol are fetched
CheckForm8k(status, response) ==
    /\ pc = "form8k"
    /\ filings' = Fetched(status, response)
    /\ IF Len(Fetched(status, response)) > 0
       THEN /\ pos' = 1
            /\ pc' = "form8k_send"
            /\ UNCHANGED symIdx
       ELSE /\ pos' = 0
            /\ pc' = AfterFilings(symIdx)
            /\ symIdx' = symIdx + 1
    /\ UNCHANGED <<cfgv, filev, clockv, disk, file_state, history, data,
                   new_transactions, fetchv, sendv, ret, seen_trades, seen_8k,
                   form4_alerts, form8k_alerts, all_new_trades>>

\* lines 564-593: one iteration of the loop over the filings of the symbol;
\* a filing not seen before is sent at once and marked seen if that succeeds
SendForm8k(status) ==
    /\ pc = "form8k_send"
    /\ LET id == filing_id(WATCHLIST[symIdx], filings[pos])
           sent == id \notin seen_8k /\ Delivered(DISCORD_WEBHOOK_FORM8K, status)
       IN  /\ form8k_alerts' = IF sent THEN form8k_alerts + 1 ELSE form8k_alerts
           /\ seen_8k' = IF sent THEN seen_8k \cup {id} ELSE seen_8k
    /\ IF pos < Len(filings)
       THEN /\ pos' = pos + 1
            /\ UNCHANGED <<pc, symIdx>>
       ELSE /\ pos' = 0
            /\ pc' = AfterFilings(symIdx)
            /\ symIdx' = symIdx + 1
    /\ UNCHANGED <<cfgv, filev, clockv, disk, file_state, history, data,
                   new_transactions, fetchv, sendv, ret, seen_trades,
                   form4_alerts, all_new_trades, filings>>

\* lines 601-603: both files are written and the function returns
SaveSeen ==
    /\ pc = "save_seen"
    /\ SEEN_TRADES_FILE' = seen_trades
    /\ SEEN_8K_FILE' = seen_8k
    /\ file_state' = "valid"
    /\ pc' = "idle"
    /\ seen_trades' = {}
    /\ seen_8k' = {}
    /\ form4_alerts' = 0
    /\ form8k_alerts' = 0
    /\ all_new_trades' = <<>>
    /\ filings' = <<>>
    /\ symIdx' = 0
    /\ pos' = 0
    /\ UNCHANGED <<cfgv, clockv, disk, history, data, new_transactions, fetchv,
                   sendv, ret>>

\* the upstream API sees the request for the current symbol (lines 254, 275)
\* and answers it
LogFetch(form, status, response) ==
    calls' = Append(calls, [symbol |-> WATCHLIST[symIdx], form |-> form,
                            records |-> Fetched(status, response)])

\* the webhook sees a request if the URL is set (lines 56-64)
LogHook(url, form, id, wanted) ==
    hooks' = IF url /\ wanted THEN Append(hooks, [form |-> form, id |-> id])
             ELSE hooks

\* the webhook answers the request for the 8-K filing `id`: `accepted` holds
\* the filings it has answered with 200 or 204 in this run, `observed` the
\* filings for which it has ever given another answer, or none
LogAnswer(url, id, wanted, status) ==
    /\ accepted' = IF url /\ wanted /\ status = "ok"
                   THEN accepted \cup {id} ELSE accepted
    /\ observed' = IF url /\ wanted /\ status # "ok"
                   THEN [k \in DOMAIN observed \cup {id} |-> "failed"]
                   ELSE observed

\* the answers of the upstream API: a request without a token is refused
FetchStatuses == IF FINNHUB_API_KEY THEN HttpStatuses ELSE {"http_error", "exception"}

\* everything set, the credential missing, or the webhook URLs missing
AlertSettings == {<<TRUE, TRUE, TRUE>>, <<FALSE, TRUE, TRUE>>, <<TRUE, FALSE, FALSE>>}

InitAlerts ==
    /\ monitor = "discord_alerts"
    /\ API_KEYS = <<>>
    /\ DISCORD_WEBHOOK = FALSE
    /\ \E set \in AlertSettings :
          /\ FINNHUB_API_KEY = set[1]
          /\ DISCORD_WEBHOOK_FORM4 = set[2]
          /\ DISCORD_WEBHOOK_FORM8K = set[3]
    /\ now = 0
    /\ ticks = 0
    /\ disk = EmptyHistory
    /\ file_state = "missing"
    /\ pc = "idle"
    /\ NoProcess
    /\ ret = "cleanup"
    /\ SEEN_TRADES_FILE = {}
    /\ SEEN_8K_FILE = {}
    /\ seen_trades = {}
    /\ seen_8k = {}
    /\ form4_alerts = 0
    /\ form8k_alerts = 0
    /\ all_new_trades = <<>>
    /\ filings = <<>>
    /\ reqs = <<>>
    /\ slept = <<>>
    /\ posts = <<>>
    /\ accepted = {}
    /\ upstream = NoUpstream
    /\ runlog = <<>>
    /\ calls = <<>>
    /\ hooks = <<>>
    /\ observed = NeverObserved

NextAlerts ==
    \/ MonitorInsiderActivity /\ UNCHANGED obsv
    \/ \E status \in FetchStatuses :
         \E response \in (IF status = "ok" THEN Form4Responses ELSE {<<>>}) :
            /\ CheckForm4(status, response)
            /\ LogFetch("4", status, response)
            /\ UNCHANGED <<reqs, slept, posts, accepted, upstream, runlog, hooks, observed>>
    \/ SortTrades /\ UNCHANGED obsv
    \/ \E status \in HookStatuses :
         /\ SendForm4(status)
         /\ LogHook(DISCORD_WEBHOOK_FORM4, "4", all_new_trades[pos].trade_id, TRUE)
         /\ UNCHANGED <<reqs, slept, posts, accepted, upstream, runlog, calls, observed>>
    \/ \E status \in FetchStatuses :
         \E response \in (IF status = "ok" THEN Form8kResponses ELSE {<<>>}) :
            /\ CheckForm8k(status, response)
            /\ LogFetch("8-K", status, response)
            /\ UNCHANGED <<reqs, slept, posts, accepted, upstream, runlog, hooks, observed>>
    \/ \E status \in HookStatuses :
         /\ SendForm8k(status)
         /\ LogHook(DISCORD_WEBHOOK_FORM8K, "8-K",
                    filing_id(WATCHLIST[symIdx], filings[pos]),
                    filing_id(WATCHLIST[symIdx], filings[pos]) \notin seen_8k)
         /\ LogAnswer(DISCORD_WEBHOOK_FORM8K,
                      filing_id(WATCHLIST[symIdx], filings[pos]),
                      filing_id(WATCHLIST[symIdx], filings[pos]) \notin seen_8k,
                      status)
         /\ UNCHANGED <<reqs, slept, posts, upstream, runlog, calls>>
    \/ /\ SaveSeen
       /\ calls' = <<>>
       /\ hooks' = <<>>
       /\ accepted' = {}
       /\ UNCHANGED <<reqs, slept, posts, upstream, runlog, observed>>

SpecAlerts == InitAlerts /\ [][NextAlerts]_vars


\* the Form 4 notifications the webhook was asked to deliver in this run
Form4Hooks == SelectSeq(hooks, LAMBDA h : h.form = "4")

HookIds(list) == {list[n].id : n \in 1..Len(list)}

\* the trades fetched in this run that were not in the seen file and are
\* worth at least the minimum amount
NewQualifying ==
    UNION {{trade_id(calls[n].symbol, calls[n].records[m]) :
               m \in {j \in 1..Len(calls[n].records) :
                        TradeValue(calls[n].records[j]) >= 100000}} :
           n \in {j \in 1..Len(calls) : calls[j].form = "4"}}
        \ SEEN_TRADES_FILE

\* C22: at most 5 Form 4 notifications are attempted per run; a trade that
\* is not among the first five of the sorted list gets none; every new
\* qualifying trade of the run is in the seen file the run saves, the file
\* never loses an id, and no notification is attempted for an id the file
\* held at the start of the run.
C22_CapPerRun ==
    /\ [](/\ Len(Form4Hooks) <= 5
          /\ HookIds(Form4Hooks) \cap SEEN_TRADES_FILE = {}
          /\ pc \in {"form8k", "form8k_send", "save_seen"} =>
                \A n \in 6..Len(all_new_trades) :
                    \/ all_new_trades[n].trade_id \notin HookIds(Form4Hooks)
                    \/ \E m \in 1..5 :
                          all_new_trades[m].trade_id = all_new_trades[n].trade_id)
    /\ [][/\ SEEN_TRADES_FILE \subseteq SEEN_TRADES_FILE'
          /\ pc = "save_seen" /\ pc' = "idle" =>
                NewQualifying \subseteq SEEN_TRADES_FILE'
         ]_vars

\* a run that found six new qualifying trades is about to save: five were
\* sent to the webhook and all six are marked seen
C22_Witness ==
    /\ pc = "save_seen"
    /\ Cardinality(NewQualifying) = 6
    /\ Len(Form4Hooks) = 5
    /\ NewQualifying \subseteq seen_trades

\* C23: with no upstream credential a run stops at once: no upstream request,
\* no webhook request, and the tracking files are not written.
C23_NoCredentialNoActivity ==
    ~FINNHUB_API_KEY => calls = <<>> /\ hooks = <<>> /\ file_state = "missing"

\* C27: no notification is sent before every watchlist symbol has been
\* fetched for the form the notification is about, and the files are written
\* only at the save step, after the deliveries.
C27_PhaseOrder ==
    [][/\ Len(hooks') > Len(hooks) =>
             \A s \in 1..Len(WATCHLIST) :
                 \E n \in 1..Len(calls) :
                     /\ calls[n].symbol = WATCHLIST[s]
                     /\ calls[n].form = hooks'[Len(hooks')].form
       /\ (SEEN_TRADES_FILE' # SEEN_TRADES_FILE \/ SEEN_8K_FILE' # SEEN_8K_FILE
             \/ file_state' # file_state) => pc = "save_seen"
      ]_vars


-----------------------------------------------------------------------------
(* scripts/eps_surprises_alert.py and scripts/ipo_calendar_alert.py: main   *)
(* fetches the IPO calendar twice (the recent and the upcoming IPOs), alerts *)
(* the IPOs that pass the filter of the script and are not in the history,   *)
(* and records exactly those.  Line numbers are those of eps_surprises       *)
(* unless ipo_calendar is named.                                             *)

\* the calendars main asks for, in this order (lines 284 and 309,
\* ipo_calendar lines 224 and 235)
Calendars == <<"recent", "upcoming">>

\* totalSharesValue of a listed IPO: not given, below the minimum, at it
IpoValues == {0, 500000000, 1000000000}

\* f says for every IPO whether the calendar lists it (a value) or not (-1)
IpoListing(f) ==
    SelectSeq([s \in 1..NumIpos |->
                  [symbol |-> s, date |-> 1, totalSharesValue |-> f[s]]],
              LAMBDA ipo : ipo.totalSharesValue >= 0)

\* what get_ipo_calendar may find under 'ipoCalendar'
IpoResponses == {IpoListing(f) : f \in [1..NumIpos -> IpoValues \cup {-1}]}

\* lines 64-66
create_ipo_id(ipo) == <<ipo.symbol, ipo.date>>

\* lines 69-77
is_billion_dollar_ipo(ipo) ==
    LET total_value == ipo.totalSharesValue
    IN  IF total_value = 0 THEN TRUE ELSE total_value >= MIN_IPO_VALUE

\* The field totalSharesValue as the API sends it: not given (the key is
\* missing or null), or a number.
NotGiven == [given |-> FALSE, number |-> 0]

Given(v) == [given |-> TRUE, number |-> v]

\* a listed IPO as the API sent it: a listing without a value is listed
\* here with 0
AsSent(ipo) ==
    [ipo EXCEPT !.totalSharesValue = IF @ = 0 THEN NotGiven ELSE Given(@)]

\* a deviation for comparison: an IPO without a value passes.
is_valid_or_unvalued_ipo(ipo) ==
    LET value == ipo.totalSharesValue
    IN  IF ~value.given THEN TRUE ELSE value.number >= MIN_IPO_VALUE

\* ipo_calendar lines 93-105: None is not an instance of (int, float)
is_valid_billion_dollar_ipo(ipo) ==
    LET value == ipo.totalSharesValue
    IN  IF ~value.given THEN FALSE ELSE value.number >= MIN_IPO_VALUE

\* the filter main applies: ipo_calendar lines 229 and 239, eps_surprises
\* lines 291 and 316
PassesFilter(ipo) ==
    IF monitor = "ipo_calendar"
    THEN is_valid_billion_dollar_ipo(AsSent(ipo))
    ELSE is_billion_dollar_ipo(ipo)

\* the record main writes: ipo_calendar lines 230 and 240, eps_surprises
\* lines 293-298 and 318-323
HistoryRecord(ipo, type, today) ==
    IF monitor = "ipo_calendar"
    THEN [seen |-> today]
    ELSE [first_seen |-> today, ipo |-> ipo, type |-> type,
          value |-> ipo.totalSharesValue]

\* a deviation for comparison: the IPO is alerted whether or not the history
\* holds it.
AlertsIpoAnew(ipo, h) == PassesFilter(ipo)

\* lines 290-292 and 315-317, ipo_calendar lines 226-231 and 236-241: is
\* the IPO alerted?
AlertsIpo(ipo, h) ==
    create_ipo_id(ipo) \notin DOMAIN h /\ PassesFilter(ipo)

\* a deviation for comparison: an IPO below the minimum is recorded as well.
RecordsEveryIpo(ipo, h) == create_ipo_id(ipo) \notin DOMAIN h

\* a deviation for comparison: every listed IPO is written into the history.
RecordsListedIpo(ipo, h) == TRUE

\* lines 290-299 and 315-324, ipo_calendar lines 226-230 and 236-240: is
\* the IPO written into the history?
RecordsIpo(ipo, h) ==
    create_ipo_id(ipo) \notin DOMAIN h /\ PassesFilter(ipo)

\* lines 287-306 and 312-331, ipo_calendar lines 224-232 and 235-242: the
\* loop over the IPOs of one calendar
RECURSIVE EvaluateCalendar(_, _, _, _, _)
EvaluateCalendar(list, h, new_ipos, type, today) ==
    IF list = <<>> THEN [history |-> h, new_ipos |-> new_ipos]
    ELSE LET ipo == Head(list)
             ipo_id == create_ipo_id(ipo)
         IN  EvaluateCalendar(
                 Tail(list),
                 IF RecordsIpo(ipo, h)
                 THEN [k \in DOMAIN h \cup {ipo_id} |->
                          IF k = ipo_id THEN HistoryRecord(ipo, type, today)
                          ELSE h[k]]
                 ELSE h,
                 IF AlertsIpo(ipo, h)
                 THEN Append(new_ipos, <<ipo, type = "upcoming">>)
                 ELSE new_ipos,
                 type, today)

\* lines 97-101, ipo_calendar lines 121-183 (format_embed): the embed of an
\* IPO, as far as it identifies the IPO
format_ipo_embed(ipo, is_upcoming) ==
    [title |-> <<IF is_upcoming THEN "UPCOMING" ELSE "RECENT", ipo.symbol>>,
     description |-> ipo.date]

\* lines 366-370; ipo_calendar lines 249-253
CleanupIpos(h, today) ==
    LET cutoff_date == today - IPO_RETENTION_DAYS
        kept(v) == IF monitor = "ipo_calendar"
                   THEN "seen" \in DOMAIN v /\ v.seen > cutoff_date
                   ELSE v.first_seen > cutoff_date
    IN  [k \in {x \in DOMAIN h : kept(h[x])} |-> h[k]]

\* lines 260-280, ipo_calendar lines 204-211: a process starts; without the
\* credential it returns
IpoMain ==
    /\ pc = "idle"
    /\ IF (IF monitor = "ipo_calendar" THEN Len(API_KEYS) = 0
                                       ELSE ~FINNHUB_API_KEY)
       THEN UNCHANGED <<pc, history, symIdx>>
       ELSE /\ history' = load_history(monitor, file_state, disk)
            /\ symIdx' = 1
            /\ pc' = "calendar"
    /\ UNCHANGED <<cfgv, filev, form4v, clockv, disk, file_state, data, pos,
                   new_transactions, fetchv, sendv, ret>>

\* lines 284-306 and 309-331, ipo_calendar lines 223-242: one calendar is
\* fetched and its IPOs are evaluated.  get_ipo_calendar returns None on any
\* failure (lines 46-61) and, in ipo_calendar, an empty list once its
\* attempts are over (lines 52-86).  new_transactions holds main's new_ipos,
\* and for ipo_calendar the IPOs whose embeds are main's new_alerts
CheckCalendar(status, response) ==
    /\ pc = "calendar"
    /\ data' = IF status = "ok" THEN Json(response) ELSE FetchFailure(monitor)
    /\ LET after == EvaluateCalendar(IF status = "ok" THEN response ELSE <<>>,
                                     history, new_transactions,
                                     Calendars[symIdx], now)
       IN  /\ history' = after.history
           /\ new_transactions' = after.new_ipos
    /\ symIdx' = symIdx + 1
    /\ pc' = IF symIdx < Len(Calendars) THEN "calendar" ELSE "ipo_alerts"
    /\ UNCHANGED <<cfgv, filev, form4v, clockv, disk, file_state, pos, fetchv,
                   sendv, ret>>

\* lines 334-363: the embeds are built and handed to send_discord_alert;
\* ipo_calendar lines 244-247: the embeds are handed to send_discord
IpoAlerts ==
    /\ pc = "ipo_alerts"
    /\ IF Len(new_transactions) > 0
       THEN /\ embeds' = [n \in 1..Len(new_transactions) |->
                             format_ipo_embed(new_transactions[n][1],
                                              new_transactions[n][2])]
            /\ pc' = "send"
       ELSE /\ pc' = "ipo_cleanup"
            /\ UNCHANGED embeds
    /\ UNCHANGED <<cfgv, filev, form4v, clockv, disk, file_state, procv, fetchv,
                   i, total_sent, total_failed, result, ret>>

\* lines 365-370; ipo_calendar lines 249-253
IpoCleanup ==
    /\ pc = "ipo_cleanup"
    /\ history' = CleanupIpos(history, now)
    /\ pc' = "save"
    /\ UNCHANGED <<cfgv, filev, form4v, clockv, disk, file_state, symIdx, data,
                   pos, new_transactions, fetchv, sendv, ret>>

\* how often the IPO with id k is in main's new_ipos
Queued(k, new_ipos) ==
    Cardinality({n \in 1..Len(new_ipos) : create_ipo_id(new_ipos[n][1]) = k})

\* the upstream API sees the request and answers it; for every IPO it has
\* listed so far, `observed` keeps the day of the first listing and whether
\* the run has put the IPO on its list of alerts since
LogCalendar(status, response) ==
    LET records == IF status = "ok" THEN response ELSE <<>>
        listed == {create_ipo_id(records[n]) : n \in 1..Len(records)}
    IN  /\ calls' = Append(calls, [calendar |-> Calendars[symIdx],
                                   records |-> records])
        /\ observed' =
              [k \in DOMAIN observed \cup listed |->
                 [first_seen |-> IF k \in DOMAIN observed
                                 THEN observed[k].first_seen ELSE now,
                  alerted |->
                     \/ (k \in DOMAIN observed /\ observed[k].alerted)
                     \/ Queued(k, new_transactions') > Queued(k, new_transactions)]]

\* the time between two runs: within 48 hours, or beyond
IpoTickDays == {1, 3}

InitIpo ==
    /\ monitor \in {"eps_surprises", "ipo_calendar"}
    /\ FINNHUB_API_KEY \in BOOLEAN
    /\ API_KEYS = IF monitor = "ipo_calendar" /\ FINNHUB_API_KEY
                  THEN <<1>> ELSE <<>>
    /\ DISCORD_WEBHOOK = TRUE
    /\ DISCORD_WEBHOOK_FORM4 = FALSE
    /\ DISCORD_WEBHOOK_FORM8K = FALSE
    /\ now = 0
    /\ ticks = 0
    /\ disk = EmptyHistory
    /\ file_state = "missing"
    /\ pc = "idle"
    /\ NoProcess
    /\ ret = "ipo_cleanup"
    /\ SEEN_TRADES_FILE = {}
    /\ SEEN_8K_FILE = {}
    /\ seen_trades = {}
    /\ seen_8k = {}
    /\ form4_alerts = 0
    /\ form8k_alerts = 0
    /\ all_new_trades = <<>>
    /\ filings = <<>>
    /\ reqs = <<>>
    /\ slept = <<>>
    /\ posts = <<>>
    /\ accepted = {}
    /\ upstream = NoUpstream
    /\ runlog = <<>>
    /\ calls = <<>>
    /\ hooks = <<>>
    /\ observed = NeverObserved

NextIpo ==
    \/ \E d \in IpoTickDays : Tick(d) /\ UNCHANGED obsv
    \/ IpoMain /\ UNCHANGED obsv
    \/ \E status \in HttpStatuses :
         \E response \in (IF status = "ok" THEN IpoResponses ELSE {<<>>}) :
            /\ CheckCalendar(status, response)
            /\ LogCalendar(status, response)
            /\ UNCHANGED <<reqs, slept, posts, accepted, upstream, runlog, hooks>>
    \/ IpoAlerts /\ UNCHANGED obsv
    \/ SendEnter /\ UNCHANGED obsv
    \/ \E status \in HttpStatuses : Post(status) /\ UNCHANGED obsv
    \/ \E status \in HttpStatuses : Retry(status) /\ UNCHANGED obsv
    \/ IpoCleanup /\ UNCHANGED obsv
    \/ /\ Save
       /\ calls' = <<>>
       /\ UNCHANGED <<reqs, slept, posts, accepted, upstream, runlog, hooks, observed>>

SpecIpo == InitIpo /\ [][NextIpo]_vars


\* the calendar fetched by the step lists the IPO with id k at a value of a
\* billion or more
ListedSignificant(k, records) ==
    \E n \in 1..Len(records) :
        create_ipo_id(records[n]) = k /\ records[n].totalSharesValue >= 1000000000

C29_InertAfterWindow ==
    [][Len(calls') > Len(calls) =>
          \A k \in DOMAIN observed :
              (now - observed[k].first_seen > 2 \/ observed[k].alerted) =>
                  Queued(k, new_transactions') = Queued(k, new_transactions)
      ]_vars

\* a value the monitor alerts: a billion or more, and for eps_surprises also
\* no value
Passing(value) ==
    \/ value >= 1000000000
    \/ monitor = "eps_surprises" /\ value = 0

\* the calendar lists the IPO with id k at a value that passes the filter of
\* the monitor
ListedPassing(k, records) ==
    \E n \in 1..Len(records) :
        create_ipo_id(records[n]) = k /\ Passing(records[n].totalSharesValue)

\* the entries of main's list of alerts for the IPO with id k
QueuedAs(k, new_ipos) ==
    {new_ipos[n][2] : n \in {m \in 1..Len(new_ipos) :
                                create_ipo_id(new_ipos[m][1]) = k}}

\* C34: an IPO that both the recent and the upcoming calendar of a run list
\* is met the second time with the history the first loop has written: no
\* IPO is on the run's list of alerts more than once, and an IPO passing the
\* filter in both calendars and new to the history is on it exactly once, as
\* a recent IPO, and recorded as one.
C34_OverlapOnce ==
    /\ \A k \in DOMAIN observed : Queued(k, new_transactions) <= 1
    /\ pc = "ipo_alerts" =>
          \A k \in DOMAIN observed :
              (/\ k \notin DOMAIN disk
               /\ ListedPassing(k, calls[1].records)
               /\ ListedPassing(k, calls[2].records)) =>
                  /\ Queued(k, new_transactions) = 1
                  /\ QueuedAs(k, new_transactions) = {FALSE}
                  /\ k \in DOMAIN history
                  /\ monitor = "eps_surprises" => history[k].type = "recent"

\* the first run of ipo_calendar has fetched both calendars, both list the
\* same new IPO at a passing value, and the IPO is on the list of alerts once
C34_Witness ==
    /\ monitor = "ipo_calendar"
    /\ pc = "ipo_alerts"
    /\ file_state = "missing"
    /\ Len(calls) = 2
    /\ \E k \in DOMAIN observed :
          /\ ListedPassing(k, calls[1].records)
          /\ ListedPassing(k, calls[2].records)
          /\ Queued(k, new_transactions) = 1
          /\ Len(new_transactions) = 1

\* C35: a key enters the history only in the step that puts its notification
\* on the run's list: every key the run has added to the loaded history is on
\* the list, no IPO on the list or recorded fails the filter, and a fetch
\* listing at a passing value an IPO that was listed before and never alerted
\* puts it on the list, however long ago the first listing was.
C35_RecordedIffQueued ==
    [][/\ \A k \in DOMAIN history' \ DOMAIN disk :
             /\ Queued(k, new_transactions') = 1
             /\ monitor = "eps_surprises" => Passing(history'[k].value)
       /\ \A n \in 1..Len(new_transactions') :
             Passing(new_transactions'[n][1].totalSharesValue)
       /\ monitor = "eps_surprises" =>
             \A k \in DOMAIN disk' : Passing(disk'[k].value)
       /\ Len(calls') > Len(calls) =>
             \A k \in DOMAIN observed :
                 /\ (k \in DOMAIN history' /\ k \notin DOMAIN history) =>
                        Queued(k, new_transactions')
                            = Queued(k, new_transactions) + 1
                 /\ (/\ ~observed[k].alerted
                     /\ ListedPassing(k, calls'[Len(calls')].records)) =>
                        /\ Queued(k, new_transactions')
                              = Queued(k, new_transactions) + 1
                        /\ k \in DOMAIN history'
      ]_vars

\* an earlier run of ipo_calendar has saved a history without the IPO, which
\* it saw below the minimum or without a value; three days later the IPO is
\* listed at a billion, recorded and first on the list of alerts
C35_Witness ==
    /\ monitor = "ipo_calendar"
    /\ pc = "ipo_alerts"
    /\ file_state = "valid"
    /\ now = 3
    /\ \E k \in DOMAIN observed :
          /\ observed[k].first_seen = 0
          /\ k \notin DOMAIN disk
          /\ k \in DOMAIN history
          /\ Queued(k, new_transactions) = 1
          /\ ListedSignificant(k, <<new_transactions[1][1]>>)



-----------------------------------------------------------------------------
(* SpecValuation: the two valuation filters of the IPO scripts applied to   *)
(* the same IPO: is_billion_dollar_ipo of scripts/eps_surprises_alert.py    *)
(* and is_valid_billion_dollar_ipo of scripts/ipo_calendar_alert.py.        *)

\* numbers of both signs on both sides of the minimum, zero among them
ValuationNumbers ==
    {k * 125000000 : k \in -8..16}
        \cup {-1, 1, MIN_IPO_VALUE - 1, MIN_IPO_VALUE + 1}

ValuationInputs ==
    {[symbol |-> s, date |-> 1, totalSharesValue |-> f] :
        s \in 1..NumIpos,
        f \in {NotGiven} \cup {Given(v) : v \in ValuationNumbers}}

\* eps_surprises lines 71-74: ipo.get('totalSharesValue', 0) yields 0 for a
\* missing key, and line 74 treats the value None as it treats 0
total_value(ipo) ==
    IF ipo.totalSharesValue.given THEN ipo.totalSharesValue.number ELSE 0

\* the IPO as is_billion_dollar_ipo reads it
AsRead(ipo) == [ipo EXCEPT !.totalSharesValue = total_value(ipo)]

InitValuation ==
    /\ monitor = "eps_surprises"
    /\ API_KEYS = <<1>>
    /\ DISCORD_WEBHOOK = TRUE
    /\ now = 0
    /\ ticks = 0
    /\ disk = EmptyHistory
    /\ file_state = "missing"
    /\ pc = "valuation"
    /\ history = EmptyHistory
    /\ symIdx = 1
    /\ \E ipo \in ValuationInputs : data = Json(<<ipo>>)
    /\ pos = 1
    /\ new_transactions = <<>>
    /\ api_key_index = 0
    /\ attempt = 0
    /\ embeds = <<>>
    /\ i = 0
    /\ total_sent = 0
    /\ total_failed = 0
    /\ result = "None"
    /\ ret = "cleanup"
    /\ reqs = <<>>
    /\ slept = <<>>
    /\ posts = <<>>
    /\ accepted = {}
    /\ upstream = NoUpstream
    /\ runlog = <<>>
    /\ calls = <<>>
    /\ hooks = <<>>
    /\ observed = NeverObserved
    /\ NoDiscordAlerts

Bool(b) == IF b THEN "True" ELSE "False"

\* eps_surprises line 292 and ipo_calendar line 229: both filters are
\* applied to the IPO; result holds what the first and the second return
CallValuations ==
    /\ pc = "valuation"
    /\ result' = <<Bool(is_billion_dollar_ipo(AsRead(data.data[1]))),
                   Bool(is_valid_billion_dollar_ipo(data.data[1]))>>
    /\ pc' = "valued"
    /\ UNCHANGED <<cfgv, filev, form4v, clockv, disk, file_state, procv, fetchv,
                   embeds, i, total_sent, total_failed, ret>>

NextValuation == CallValuations /\ UNCHANGED obsv

SpecValuation == InitValuation /\ [][NextValuation]_vars

\* C31: for an IPO whose totalSharesValue is a non-zero number both filters
\* return (value >= 1,000,000,000); when the value is absent or zero
\* is_billion_dollar_ipo returns true and is_valid_billion_dollar_ipo false.
C31_FiltersDifferOnMissing ==
    pc = "valued" =>
        LET value == data.data[1].totalSharesValue
        IN  IF value.given /\ value.number # 0
            THEN result = <<Bool(value.number >= 1000000000),
                            Bool(value.number >= 1000000000)>>
            ELSE result = <<"True", "False">>

\* both filters have been applied to an IPO without a value
C31_Witness ==
    /\ pc = "valued"
    /\ ~data.data[1].totalSharesValue.given
    /\ result = <<"True", "False">>


\* the filing date the API gave in this run for the trade with this id
FilingDateOf(id) ==
    LET at == CHOOSE nm \in {<<n, m>> \in (1..Len(calls)) \X (1..MaxTrades + 1) :
                                /\ calls[n].form = "4"
                                /\ m <= Len(calls[n].records)
                                /\ trade_id(calls[n].symbol, calls[n].records[m]) = id} :
                  TRUE
    IN  calls[at[1]].records[at[2]].filingDate

\* C32: when a run finds more than 5 new qualifying trades, a notification is
\* attempted for 5 of them, each filed no earlier than every new trade that
\* gets none, and the attempts are made in non-increasing order of filing date.
C32_MostRecentFive ==
    /\ \A n, m \in 1..Len(Form4Hooks) :
          n < m => FilingDateOf(Form4Hooks[n].id) >= FilingDateOf(Form4Hooks[m].id)
    /\ (/\ pc \in {"form8k", "form8k_send", "save_seen"}
        /\ DISCORD_WEBHOOK_FORM4
        /\ Cardinality(NewQualifying) > 5) =>
          /\ Len(Form4Hooks) = 5
          /\ HookIds(Form4Hooks) \subseteq NewQualifying
          /\ \A h \in HookIds(Form4Hooks) :
                \A u \in NewQualifying \ HookIds(Form4Hooks) :
                    FilingDateOf(h) >= FilingDateOf(u)

\* a run has found six new trades: five notifications have been attempted,
\* the last of them for a trade of the first symbol, and the trade left out
\* was filed on the earliest date
C32_Witness ==
    /\ pc = "form8k"
    /\ Cardinality(NewQualifying) = 6
    /\ Len(Form4Hooks) = 5
    /\ \E u \in NewQualifying \ HookIds(Form4Hooks) : FilingDateOf(u) = 1
    /\ Form4Hooks[5].id[1] = 1


\* C33: within a run at most one notification is queued per event key, also
\* when the fetched data of the run lists the key more than once.
C33_OneQueuedPerKey ==
    \A n, m \in 1..Len(all_new_trades) :
        n # m => all_new_trades[n].trade_id # all_new_trades[m].trade_id


\* C36: an 8-K filing enters the seen set only in the step in which the
\* webhook answers its request with 200 or 204; the file written at the end
\* of the run holds the ids loaded and those the webhook accepted in the run,
\* so it keeps every id it held; and a filing the webhook once failed to
\* accept, and has not accepted since, is requested again whenever a run
\* fetches it with the webhook URL set.
C36_SeenAfterDelivery ==
    [][/\ seen_8k \subseteq SEEN_8K_FILE \cup accepted
       /\ \A id \in seen_8k' \ seen_8k :
             pc = "idle" \/ (pc = "form8k_send" /\ id \in accepted' \ accepted)
       /\ SEEN_8K_FILE' # SEEN_8K_FILE =>
             /\ pc = "save_seen"
             /\ SEEN_8K_FILE' = SEEN_8K_FILE \cup accepted
       /\ SEEN_8K_FILE \subseteq SEEN_8K_FILE'
       /\ (pc = "form8k_send" /\ DISCORD_WEBHOOK_FORM8K) =>
             \A id \in DOMAIN observed \ (SEEN_8K_FILE \cup accepted) :
                 id = <<symIdx, calls[Len(calls)].records[pos].accessNumber>> =>
                     /\ Len(hooks') = Len(hooks) + 1
                     /\ hooks'[Len(hooks')] = [form |-> "8-K", id |-> id]
      ]_vars

\* a run has saved the seen set without a filing whose request failed; the
\* next run has fetched the filing again, requested it again and had it
\* accepted
C36_Witness ==
    /\ file_state = "valid"
    /\ pc \in {"form8k", "save_seen"}
    /\ \E id \in DOMAIN observed :
          /\ id \notin SEEN_8K_FILE
          /\ id \in accepted
          /\ id \in seen_8k
          /\ hooks # <<>>
          /\ hooks[Len(hooks)] = [form |-> "8-K", id |-> id]

-----------------------------------------------------------------------------
(* SpecSentiment: main of the top-level insider_sentiment_alert.py, which   *)
(* keeps one history record per symbol: the period and the MSPR of the      *)
(* sentiment it saw last.                                                   *)

\* the MSPR values of a sentiment record: both signs, on both sides of the
\* two limits of line 192
Msprs == {-50, -49, -20, 0, 19, 49, 50}

\* the record main looks at
LatestRecords ==
    {[year |-> 2024, month |-> m, mspr |-> v] : m \in {1, 2}, v \in Msprs}

\* what get_insider_sentiment may find under 'data': nothing, one record, or
\* a record followed by one of a later period
SentimentResponses ==
    {<<>>} \cup {<<r>> : r \in LatestRecords}
           \cup {<<r, [year |-> 2024, month |-> 3, mspr |-> 50]>> :
                    r \in LatestRecords}

\* line 175: f"{year}-{month:02d}" is different for different pairs
period_key(latest) == <<latest.year, latest.month>>

\* a deviation for comparison: an extreme value alone does not alert.
should_alert_on_change(h, symbol, latest) ==
    IF symbol \notin DOMAIN h THEN TRUE
    ELSE IF h[symbol].period # period_key(latest)
    THEN Abs(latest.mspr - h[symbol].mspr) >= MSPR_THRESHOLD
    ELSE FALSE

\* lines 178-193
should_alert(h, symbol, latest) ==
    IF symbol \notin DOMAIN h THEN TRUE
    ELSE IF h[symbol].period # period_key(latest)
    THEN LET previous_mspr == h[symbol].mspr
             mspr_change == Abs(latest.mspr - previous_mspr)
         IN  mspr_change >= MSPR_THRESHOLD \/ Abs(latest.mspr) >= 50
    ELSE FALSE

\* lines 181, 183-188: the previous MSPR handed to the embed
PreviousMspr(h, symbol, latest) ==
    IF symbol \in DOMAIN h /\ h[symbol].period # period_key(latest)
    THEN <<h[symbol].mspr>> ELSE <<>>

\* lines 77-122: the embed of a sentiment, as far as it identifies it
format_sentiment_embed(symbol, sentiment_data, previous_mspr) ==
    [title |-> <<"SENTIMENT", symbol>>,
     description |-> <<sentiment_data.mspr, previous_mspr>>]

\* lines 149-164: a process starts; without the credential it returns
SentimentMain ==
    /\ pc = "idle"
    /\ IF ~FINNHUB_API_KEY \/ LoadRaises(monitor, file_state)
       THEN UNCHANGED <<pc, history, symIdx>>
       ELSE /\ history' = load_history(monitor, file_state, disk)
            /\ symIdx' = 1
            /\ pc' = "sentiment"
    /\ UNCHANGED <<cfgv, filev, form4v, clockv, disk, file_state, data, pos,
                   new_transactions, fetchv, sendv, ret>>

\* lines 167-204: one iteration of the loop over the symbols.
\* get_insider_sentiment (44-60) returns None on any failure;
\* new_transactions holds main's significant_changes
CheckSentiment(status, response) ==
    /\ pc = "sentiment"
    /\ data' = IF status = "ok" THEN Json(response) ELSE None
    /\ LET symbol == SYMBOLS_TO_MONITOR[symIdx]
       IN  IF status = "ok" /\ Len(response) > 0
           THEN LET latest == response[1]
                IN  /\ new_transactions' =
                          IF should_alert(history, symbol, latest)
                          THEN Append(new_transactions,
                                      <<symbol, latest,
                                        PreviousMspr(history, symbol, latest)>>)
                          ELSE new_transactions
                    /\ history' =
                          [k \in DOMAIN history \cup {symbol} |->
                              IF k = symbol
                              THEN [period |-> period_key(latest),
                                    mspr |-> latest.mspr,
                                    last_updated |-> now]
                              ELSE history[k]]
           ELSE UNCHANGED <<history, new_transactions>>
    /\ symIdx' = symIdx + 1
    /\ pc' = IF symIdx < Len(SYMBOLS_TO_MONITOR) THEN "sentiment"
                                                  ELSE "sentiment_alerts"
    /\ UNCHANGED <<cfgv, filev, form4v, clockv, disk, file_state, pos, fetchv,
                   sendv, ret>>

\* lines 206-215: the embeds are built and handed to send_discord_alert
SentimentAlerts ==
    /\ pc = "sentiment_alerts"
    /\ IF Len(new_transactions) > 0
       THEN /\ embeds' = [n \in 1..Len(new_transactions) |->
                             format_sentiment_embed(new_transactions[n][1],
                                                    new_transactions[n][2],
                                                    new_transactions[n][3])]
            /\ pc' = "send"
       ELSE /\ pc' = "save"
            /\ UNCHANGED embeds
    /\ UNCHANGED <<cfgv, filev, form4v, clockv, disk, file_state, procv, fetchv,
                   i, total_sent, total_failed, result, ret>>

\* the upstream API sees the request for the symbol and answers it
LogSentiment(status, response) ==
    calls' = Append(calls, [symbol |-> SYMBOLS_TO_MONITOR[symIdx],
                            records |-> IF status = "ok" THEN response
                                        ELSE <<>>])

InitSentiment ==
    /\ monitor = "insider_sentiment"
    /\ API_KEYS = <<>>
    /\ DISCORD_WEBHOOK \in BOOLEAN
    /\ DISCORD_WEBHOOK_FORM4 = FALSE
    /\ DISCORD_WEBHOOK_FORM8K = FALSE
    /\ FINNHUB_API_KEY \in BOOLEAN
    /\ now = 0
    /\ ticks = 0
    /\ disk = EmptyHistory
    /\ file_state = "missing"
    /\ pc = "idle"
    /\ NoProcess
    /\ ret = "save"
    /\ SEEN_TRADES_FILE = {}
    /\ SEEN_8K_FILE = {}
    /\ seen_trades = {}
    /\ seen_8k = {}
    /\ form4_alerts = 0
    /\ form8k_alerts = 0
    /\ all_new_trades = <<>>
    /\ filings = <<>>
    /\ reqs = <<>>
    /\ slept = <<>>
    /\ posts = <<>>
    /\ accepted = {}
    /\ upstream = NoUpstream
    /\ runlog = <<>>
    /\ calls = <<>>
    /\ hooks = <<>>
    /\ observed = NeverObserved

NextSentiment ==
    \/ SentimentMain /\ UNCHANGED obsv
    \/ \E status \in HttpStatuses :
         \E response \in (IF status = "ok" THEN SentimentResponses ELSE {<<>>}) :
            /\ CheckSentiment(status, response)
            /\ LogSentiment(status, response)
            /\ UNCHANGED <<reqs, slept, posts, accepted, upstream, runlog,
                           hooks, observed>>
    \/ SentimentAlerts /\ UNCHANGED obsv
    \/ SendEnter /\ UNCHANGED obsv
    \/ \E status \in HttpStatuses : Post(status) /\ UNCHANGED obsv
    \/ /\ Save
       /\ calls' = <<>>
       /\ UNCHANGED <<reqs, slept, posts, accepted, upstream, runlog, hooks,
                      observed>>

SpecSentiment == InitSentiment /\ [][NextSentiment]_vars

\* the file holds a record for the symbol
Stored(symbol) == symbol \in DOMAIN disk

\* C37: when the fetch for a symbol answers with at least one record, the
\* symbol is put on the list of alerts iff the file loaded holds no record for
\* it, or holds one of another period and the MSPR differs from the stored one
\* by 20 or more or is 50 or more in absolute value; a record of the stored
\* period is never put on the list; and in all these cases the history then
\* holds the period and the MSPR of the record for the symbol.  A fetch
\* without a record changes neither the list nor the history.
C37_AlertRule ==
    [][Len(calls') > Len(calls) =>
          LET symbol == calls'[Len(calls')].symbol
              records == calls'[Len(calls')].records
          IN  IF records = <<>>
              THEN history' = history /\ new_transactions' = new_transactions
              ELSE LET year == records[1].year
                       month == records[1].month
                       mspr == records[1].mspr
                       expected ==
                          \/ ~Stored(symbol)
                          \/ /\ disk[symbol].period # <<year, month>>
                             /\ \/ Abs(mspr - disk[symbol].mspr) >= 20
                                \/ Abs(mspr) >= 50
                   IN  /\ IF expected
                          THEN /\ Len(new_transactions')
                                     = Len(new_transactions) + 1
                               /\ new_transactions'[Len(new_transactions')][1]
                                     = symbol
                               /\ new_transactions'[Len(new_transactions')][2]
                                     = records[1]
                               /\ SubSeq(new_transactions', 1,
                                         Len(new_transactions))
                                     = new_transactions
                          ELSE new_transactions' = new_transactions
                       /\ (Stored(symbol)
                             /\ disk[symbol].period = <<year, month>>) =>
                                new_transactions' = new_transactions
                       /\ symbol \in DOMAIN history'
                       /\ history'[symbol].period = <<year, month>>
                       /\ history'[symbol].mspr = mspr
                       /\ \A k \in DOMAIN history' \ {symbol} :
                             k \in DOMAIN history /\ history'[k] = history[k]
      ]_vars

\* a later run: the file holds a record of the symbol, the fetch has answered
\* with a record of another period whose MSPR is within 20 of the stored one
\* and extreme, and the symbol is on the list of alerts
C37_Witness ==
    /\ pc = "sentiment_alerts"
    /\ file_state = "valid"
    /\ \E symbol \in DOMAIN disk :
          /\ history[symbol].period # disk[symbol].period
          /\ Abs(history[symbol].mspr - disk[symbol].mspr) < 20
          /\ Abs(history[symbol].mspr) >= 50
          /\ \E n \in 1..Len(new_transactions) :
                /\ new_transactions[n][1] = symbol
                /\ new_transactions[n][3] = <<disk[symbol].mspr>>
=============================================================================
